---- MODULE Spec2Model ----
(***************************************************************************)
(* A model of the consistency checker's waiver engine and orchestrator:    *)
(*   devops/consistency_checker/waiver_manager.py  (WaiverRule,            *)
(*                                                  WaiverManager)         *)
(*   devops/consistency_checker/checker.py         (ConsistencyChecker)    *)
(*   devops/consistency_checker/base_rule.py       (Violation, CheckResult)*)
(*                                                                         *)
(* Python strings are sequences of one-character strings, so that          *)
(* str.strip, the `in` substring test, fnmatch.fnmatch and re.search are   *)
(* computed rather than assumed.  Optional[T] is None == <<>> or << x >>.  *)
(***************************************************************************)
EXTENDS Integers, Sequences, FiniteSets, TLC

VARIABLES
    waivers,        \* WaiverManager.waivers : list of WaiverRule
    today,          \* date.today(), a day number
    now,            \* datetime.now(), a clock that advances with every call
    rules_dir,      \* the rules directory: its sub-directories, as iterdir()
                    \* lists them, each with its rule script and policy file
    config,         \* ConsistencyChecker.config['rules']
    available_rules,\* ConsistencyChecker.available_rules
    enabled_rules,  \* ConsistencyChecker.enabled_rules
    call,           \* the last apply_waivers call: arguments and return value
    waivedTotal,    \* number of violations returned as waived so far
    pc,             \* position of run_all_rules
    queue,          \* rule names run_all_rules has still to run
    results,        \* run_all_rules' local list `results`
    fixMode,        \* the `fix` argument of the current run_all_rules call
    report,         \* what generate_report prepared and returned, if called
    statistics,     \* WaiverManager.statistics
    created,        \* the last _create_rule_instance call: the rule's config
                    \* file, the global per-rule config, and the instance
    fix_call,       \* the last rule.fix call: its rule, the success value of
                    \* the rule's check, the argument and the outcome
    mv, mp, mresult \* one waivers[1].matches_violation call: violation,
                    \* file_path and the value returned

\* the state of a ConsistencyChecker
checkerVars ==
    << rules_dir, config, available_rules, enabled_rules, pc, queue, results,
       fixMode, report, fix_call, created >>

\* the record of one matches_violation call
matchVars == << mv, mp, mresult >>

vars ==
    << waivers, today, now, call, waivedTotal, statistics, checkerVars,
       matchVars >>

-----------------------------------------------------------------------------
(* Python values *)

None == << >>
Some(x) == << x >>

\* truthiness of an Optional[str] (None and "" are both falsy)
TruthyOpt(o) == o # None /\ o[1] # << >>

\* truthiness of a str or of a list
Truthy(s) == s # << >>

\* x in list
InList(x, l) == \E i \in 1..Len(l) : l[i] = x

\* str.strip(): drop leading and trailing whitespace
RECURSIVE LStrip(_)
LStrip(s) == IF s # << >> /\ Head(s) = " " THEN LStrip(Tail(s)) ELSE s

RECURSIVE RStrip(_)
RStrip(s) ==
    IF s # << >> /\ s[Len(s)] = " " THEN RStrip(SubSeq(s, 1, Len(s) - 1)) ELSE s

Strip(s) == RStrip(LStrip(s))

\* sub in s, for strings
Contains(sub, s) ==
    \E i \in 0..(Len(s) - Len(sub)) : SubSeq(s, i + 1, i + Len(sub)) = sub

\* fnmatch.fnmatch(name, pat) on POSIX: the whole name against a glob where
\* "*" is any run of characters ("/" included) and "?" is any one character
RECURSIVE fnmatch(_, _)
fnmatch(name, pat) ==
    IF pat = << >> THEN name = << >>
    ELSE IF Head(pat) = "*"
         THEN fnmatch(name, Tail(pat))
              \/ (name # << >> /\ fnmatch(Tail(name), pat))
    ELSE IF name = << >> THEN FALSE
    ELSE (Head(pat) = "?" \/ Head(pat) = Head(name))
         /\ fnmatch(Tail(name), Tail(pat))

\* re.search(pattern, string) is not None, for patterns made of literal
\* characters, ".", a postfix "*" and a leading "^"
RECURSIVE MatchHere(_, _)
RECURSIVE MatchStar(_, _, _)
MatchHere(re, s) ==
    IF re = << >> THEN TRUE
    ELSE IF Len(re) >= 2 /\ re[2] = "*"
         THEN MatchStar(re[1], SubSeq(re, 3, Len(re)), s)
    ELSE s # << >> /\ (re[1] = "." \/ re[1] = s[1])
         /\ MatchHere(Tail(re), Tail(s))

MatchStar(c, re, s) ==
    MatchHere(re, s)
    \/ (s # << >> /\ (c = "." \/ c = s[1]) /\ MatchStar(c, re, Tail(s)))

re_search(re, s) ==
    IF re # << >> /\ Head(re) = "^"
    THEN MatchHere(Tail(re), s)
    ELSE \E i \in 1..(Len(s) + 1) : MatchHere(re, SubSeq(s, i, Len(s)))

-----------------------------------------------------------------------------
(* WaiverRule *)

\* mutant: the comparison of is_expired turned round
is_expired_Reversed(w, day) ==
    IF w.expires = None THEN FALSE ELSE day < w.expires[1]

\* WaiverRule.is_expired
is_expired(w, day) ==
    IF w.expires = None THEN FALSE ELSE day > w.expires[1]

\* mutant: _matches_line_specific without its column check
matches_line_specific_NoColumn(w, v, file_path) ==
    IF TruthyOpt(w.file_pattern) /\ ~fnmatch(file_path, w.file_pattern[1])
    THEN FALSE
    ELSE IF w.line_number # None /\ v.line_number # w.line_number[1]
    THEN FALSE
    ELSE IF TruthyOpt(w.code_content)
            /\ Strip(w.code_content[1]) # Strip(v.code_snippet)
    THEN FALSE
    ELSE IF TruthyOpt(w.message_pattern)
    THEN re_search(w.message_pattern[1], v.message)
    ELSE IF Truthy(w.pattern) /\ ~Contains(w.pattern, v.message)
    THEN FALSE
    ELSE TRUE

\* WaiverRule._matches_line_specific
matches_line_specific(w, v, file_path) ==
    IF TruthyOpt(w.file_pattern) /\ ~fnmatch(file_path, w.file_pattern[1])
    THEN FALSE
    ELSE IF w.line_number # None /\ v.line_number # w.line_number[1]
    THEN FALSE
    ELSE IF w.column # None /\ v.column # w.column[1]
    THEN FALSE
    ELSE IF TruthyOpt(w.code_content)
            /\ Strip(w.code_content[1]) # Strip(v.code_snippet)
    THEN FALSE
    ELSE IF TruthyOpt(w.message_pattern)
    THEN re_search(w.message_pattern[1], v.message)
    ELSE IF Truthy(w.pattern) /\ ~Contains(w.pattern, v.message)
    THEN FALSE
    ELSE TRUE

\* mutant: _matches_pattern_based looking for the pattern in the message only
matches_pattern_based_MessageOnly(w, v, file_path) ==
    IF TruthyOpt(w.file_pattern) /\ ~fnmatch(file_path, w.file_pattern[1])
    THEN FALSE
    ELSE IF Truthy(w.pattern) /\ Contains(w.pattern, v.message)
    THEN TRUE
    ELSE IF TruthyOpt(w.message_pattern)
    THEN re_search(w.message_pattern[1], v.message)
    ELSE FALSE

\* WaiverRule._matches_pattern_based
matches_pattern_based(w, v, file_path) ==
    IF TruthyOpt(w.file_pattern) /\ ~fnmatch(file_path, w.file_pattern[1])
    THEN FALSE
    ELSE IF Truthy(w.pattern)
            /\ (Contains(w.pattern, v.message)
                \/ Contains(w.pattern, v.code_snippet))
    THEN TRUE
    ELSE IF TruthyOpt(w.message_pattern)
    THEN re_search(w.message_pattern[1], v.message)
    ELSE FALSE

\* mutant: _matches_rule_based leaving the rule-name test to matches_violation
matches_rule_based_AnyRule(w, v, file_path) ==
    IF TruthyOpt(w.file_pattern)
    THEN fnmatch(file_path, w.file_pattern[1])
    ELSE TRUE

\* WaiverRule._matches_rule_based
matches_rule_based(w, v, file_path) ==
    IF ~InList(v.rule_name, w.rule_names)
    THEN FALSE
    ELSE IF TruthyOpt(w.file_pattern)
    THEN fnmatch(file_path, w.file_pattern[1])
    ELSE TRUE

\* mutant: _matches_bulk taking a missing file_pattern as "any file"
matches_bulk_AnyFile(w, v, file_path) ==
    IF ~TruthyOpt(w.file_pattern) \/ fnmatch(file_path, w.file_pattern[1])
    THEN IF ~Truthy(w.rule_names) \/ InList(v.rule_name, w.rule_names)
         THEN TRUE
         ELSE FALSE
    ELSE FALSE

\* WaiverRule._matches_bulk
matches_bulk(w, v, file_path) ==
    IF TruthyOpt(w.file_pattern) /\ fnmatch(file_path, w.file_pattern[1])
    THEN IF ~Truthy(w.rule_names) \/ InList(v.rule_name, w.rule_names)
         THEN TRUE
         ELSE FALSE
    ELSE FALSE

\* WaiverRule._matches_temporary
matches_temporary(w, v, file_path) ==
    matches_pattern_based(w, v, file_path)

\* mutant: matches_violation without the severity-filter step
matches_violation_NoSeverity(w, v, file_path, day) ==
    IF ~w.active \/ is_expired(w, day)
    THEN FALSE
    ELSE IF Truthy(w.rule_names) /\ ~InList(v.rule_name, w.rule_names)
    THEN FALSE
    ELSE IF w.type = "line_specific" THEN matches_line_specific(w, v, file_path)
    ELSE IF w.type = "pattern_based" THEN matches_pattern_based(w, v, file_path)
    ELSE IF w.type = "rule_based" THEN matches_rule_based(w, v, file_path)
    ELSE IF w.type = "bulk" THEN matches_bulk(w, v, file_path)
    ELSE IF w.type = "temporary" THEN matches_temporary(w, v, file_path)
    ELSE FALSE

\* WaiverRule.matches_violation, evaluated on day `day`
matches_violation(w, v, file_path, day) ==
    IF ~w.active \/ is_expired(w, day)
    THEN FALSE
    ELSE IF Truthy(w.rule_names) /\ ~InList(v.rule_name, w.rule_names)
    THEN FALSE
    ELSE IF Truthy(w.severity_filter) /\ ~InList(v.severity, w.severity_filter)
    THEN FALSE
    ELSE IF w.type = "line_specific" THEN matches_line_specific(w, v, file_path)
    ELSE IF w.type = "pattern_based" THEN matches_pattern_based(w, v, file_path)
    ELSE IF w.type = "rule_based" THEN matches_rule_based(w, v, file_path)
    ELSE IF w.type = "bulk" THEN matches_bulk(w, v, file_path)
    ELSE IF w.type = "temporary" THEN matches_temporary(w, v, file_path)
    ELSE FALSE

\* mutant: record_usage that writes back a count read before an earlier
\* increment of the same waiver was written: the earlier increment is lost
record_usage_LostUpdate(w, t) ==
    [w EXCEPT !.usage_count = IF @ > 0 THEN @ ELSE 1, !.last_used = Some(t)]

\* mutant: record_usage that also switches the waiver off
record_usage_Deactivates(w, t) ==
    [w EXCEPT !.usage_count = @ + 1, !.last_used = Some(t), !.active = FALSE]

\* mutant: record_usage that forgets the counter
record_usage_NoCount(w, t) ==
    [w EXCEPT !.last_used = Some(t)]

\* WaiverRule.record_usage at clock value t
record_usage(w, t) ==
    [w EXCEPT !.usage_count = @ + 1, !.last_used = Some(t)]

-----------------------------------------------------------------------------
(* WaiverManager.apply_waivers *)

\* mutant: the inner loop without its `break`
RECURSIVE ScanWaivers_NoBreak(_, _, _, _, _, _)
ScanWaivers_NoBreak(ws, v, file_path, day, t, k) ==
    IF k > Len(ws)
    THEN [waivers |-> ws, waived |-> FALSE]
    ELSE IF matches_violation(ws[k], v, file_path, day)
    THEN LET rest == ScanWaivers_NoBreak(
                         [ws EXCEPT ![k] = record_usage(@, t)],
                         v, file_path, day, t, k + 1)
         IN  [waivers |-> rest.waivers, waived |-> TRUE]
    ELSE ScanWaivers_NoBreak(ws, v, file_path, day, t, k + 1)

\* mutant: the inner loop gives up at the first waiver that does not match
ScanWaivers_FirstOnly(ws, v, file_path, day, t, k) ==
    IF k > Len(ws)
    THEN [waivers |-> ws, waived |-> FALSE]
    ELSE IF matches_violation(ws[k], v, file_path, day)
    THEN [waivers |-> [ws EXCEPT ![k] = record_usage(@, t)], waived |-> TRUE]
    ELSE [waivers |-> ws, waived |-> FALSE]

\* the inner loop `for waiver in self.waivers` from position k on: the first
\* waiver that matches records its usage and the loop breaks
RECURSIVE ScanWaivers(_, _, _, _, _, _)
ScanWaivers(ws, v, file_path, day, t, k) ==
    IF k > Len(ws)
    THEN [waivers |-> ws, waived |-> FALSE]
    ELSE IF matches_violation(ws[k], v, file_path, day)
    THEN [waivers |-> [ws EXCEPT ![k] = record_usage(@, t)], waived |-> TRUE]
    ELSE ScanWaivers(ws, v, file_path, day, t, k + 1)

RECURSIVE ApplyLoop(_, _, _, _, _, _)
RECURSIVE ApplyLoop_NoWaivedTest(_, _, _, _, _, _)

\* mutant: the outer loop without `if not waived:` before the last append
ApplyLoop_NoWaivedTest(acc, violations, file_path, day, t, i) ==
    IF i > Len(violations)
    THEN acc
    ELSE LET r == ScanWaivers(acc.waivers, violations[i], file_path, day, t, 1)
         IN  ApplyLoop_NoWaivedTest(
                 [waivers   |-> r.waivers,
                  remaining |-> Append(acc.remaining, violations[i]),
                  waived    |-> IF r.waived
                                THEN Append(acc.waived, violations[i])
                                ELSE acc.waived],
                 violations, file_path, day, t, i + 1)

\* mutant: the outer loop stops looking for waivers once a violation was
\* waived, and returns the violations after it as remaining
RECURSIVE ApplyLoop_StopsAfterWaive(_, _, _, _, _, _)
ApplyLoop_StopsAfterWaive(acc, violations, file_path, day, t, i) ==
    IF i > Len(violations)
    THEN acc
    ELSE LET r == ScanWaivers(acc.waivers, violations[i], file_path, day, t, 1)
         IN  IF r.waived
             THEN [waivers   |-> r.waivers,
                   remaining |-> acc.remaining
                                   \o SubSeq(violations, i + 1, Len(violations)),
                   waived    |-> Append(acc.waived, violations[i])]
             ELSE ApplyLoop_StopsAfterWaive(
                      [waivers   |-> r.waivers,
                       remaining |-> Append(acc.remaining, violations[i]),
                       waived    |-> acc.waived],
                      violations, file_path, day, t, i + 1)

\* the outer loop `for violation in violations` from position i on
ApplyLoop(acc, violations, file_path, day, t, i) ==
    IF i > Len(violations)
    THEN acc
    ELSE LET r == ScanWaivers(acc.waivers, violations[i], file_path, day, t, 1)
         IN  ApplyLoop(
                 [waivers   |-> r.waivers,
                  remaining |-> IF r.waived THEN acc.remaining
                                ELSE Append(acc.remaining, violations[i]),
                  waived    |-> IF r.waived
                                THEN Append(acc.waived, violations[i])
                                ELSE acc.waived],
                 violations, file_path, day, t, i + 1)

\* WaiverManager.apply_waivers on the waiver list ws: the returned pair and
\* the waiver list as the call leaves it
apply_waivers(ws, violations, file_path, day, t) ==
    ApplyLoop([waivers |-> ws, remaining |-> << >>, waived |-> << >>],
              violations, file_path, day, t, 1)

-----------------------------------------------------------------------------
(* Bounds *)

MaxWaivers == 2        \* longest waiver list drawn for apply_waivers
MaxViolations == 2     \* longest violation list passed to apply_waivers
MaxCalls == 2          \* apply_waivers calls in one behaviour
MaxDay == 2            \* last day date.today() reaches
MaxCreated == 1        \* waivers made by create_waiver_from_violation

\* the day the expiring waivers of the model name as `expires`: they are
\* still valid on ExpiryDay and expired on the day after
ExpiryDay == MaxDay - 1

SeqsUpTo(S, n) == UNION {[1..k -> S] : k \in 0..n}

\* the lists of Violation objects up to length n: an object is in a list
\* once, as every Violation has an id of its own
ListsUpTo(S, n) ==
    {l \in SeqsUpTo(S, n) : \A i, j \in DOMAIN l : i # j => l[i] # l[j]}

-----------------------------------------------------------------------------
(* Concrete strings *)

S_a_py == <<"a", ".", "p", "y">>                      \* "a.py"
S_g_a_py == <<"g", "/", "a", ".", "p", "y">>          \* "g/a.py"
S_g_glob == <<"g", "/", "*", ".", "p", "y">>          \* "g/*.py"
S_Pas == <<"P", "a", "s">>                            \* "Pas"
S_re_C == <<"^", "C", " ", ".", "*", "s">>            \* "^C .*s"
S_msg_both == <<"C", " ", "u", "s", "e", " ", "P", "a", "s">>   \* "C use Pas"
S_msg_sub == <<"n", "o", " ", "P", "a", "s">>         \* "no Pas"
S_msg_re == <<"C", " ", "i", "s">>                    \* "C is"
S_msg_none == <<"b", "a", "d">>                       \* "bad"
S_code == <<"x", "=", "1">>                           \* "x=1"
S_code_indented == <<" ", " ", "x", "=", "1">>        \* "  x=1"
S_code_Pas == <<"P", "a", "s", "(", ")">>             \* "Pas()"

WaiverTypes ==
    {"line_specific", "pattern_based", "rule_based", "bulk", "temporary"}

\* WaiverRule(...) with the dataclass defaults for the fields not given
WaiverRule(id, type, pattern, rule_names, file_pattern, line_number, column, expires, code_content, message_pattern, severity_filter, active) ==
    [id |-> id, type |-> type, pattern |-> pattern, rule_names |-> rule_names,
     file_pattern |-> file_pattern, line_number |-> line_number,
     column |-> column, expires |-> expires, code_content |-> code_content,
     message_pattern |-> message_pattern, severity_filter |-> severity_filter,
     usage_count |-> 0, last_used |-> None, active |-> active]

\* Violation(...)
Violation(id, rule_name, file_path, line_number, column, message, severity, code_snippet) ==
    [id |-> id, rule_name |-> rule_name, file_path |-> file_path,
     line_number |-> line_number, column |-> column, message |-> message,
     severity |-> severity, code_snippet |-> code_snippet]

NoWaiver ==
    WaiverRule("", "line_specific", << >>, << >>, None, None, None, None,
               None, None, << >>, TRUE)

NoViolation == Violation("", "", << >>, 0, 0, << >>, "error", << >>)

\* config['rules'] with neither an allow-list nor a deny-list
NoConfig == [enabled_rules |-> << >>, disabled_rules |-> << >>]

\* a rule configuration (a dict): every key of the model, None when absent
ConfigKeys == {"max_threshold", "strict_mode"}

EmptyDict == [k \in ConfigKeys |-> None]

NoInstance ==
    [made |-> FALSE, config_file |-> None, global_rule_config |-> EmptyDict,
     schema_defaults |-> EmptyDict, config |-> EmptyDict]

NoFixCall ==
    [made |-> FALSE, rule_name |-> "", success |-> FALSE,
     violations |-> << >>, raises |-> FALSE, fixed |-> {}]

NoCall ==
    [made |-> FALSE, violations |-> << >>, file_path |-> << >>,
     remaining |-> << >>, waived |-> << >>, before |-> << >>, day |-> 0]

\* WaiverRule.days_until_expiry
days_until_expiry(w, day) ==
    IF w.expires = None THEN None ELSE Some(w.expires[1] - day)

\* WaiverManager._update_statistics: self.statistics afterwards.  The dict
\* it builds has no 'used_waivers' key.
update_statistics(ws, day) ==
    [total_waivers |-> Len(ws),
     expired_waivers |-> Cardinality({i \in DOMAIN ws : is_expired(ws[i], day)}),
     unused_waivers |-> Cardinality({i \in DOMAIN ws : ws[i].usage_count = 0}),
     active_waivers |->
         Len(ws) - Cardinality({i \in DOMAIN ws : is_expired(ws[i], day)}),
     waivers_by_type |->
         [type_name \in {ws[i].type : i \in DOMAIN ws} |->
             Cardinality({i \in DOMAIN ws : ws[i].type = type_name})],
     waivers_by_rule |->
         [rule_name \in UNION {{ws[i].rule_names[j] : j \in DOMAIN ws[i].rule_names} :
                                  i \in DOMAIN ws} |->
             Cardinality(UNION {{<< i, j >> :
                                    j \in {k \in DOMAIN ws[i].rule_names :
                                              ws[i].rule_names[k] = rule_name}} :
                                i \in DOMAIN ws})],
     expiring_soon |->
         Cardinality({i \in DOMAIN ws :
                         /\ days_until_expiry(ws[i], day) # None
                         /\ 0 < days_until_expiry(ws[i], day)[1]
                         /\ days_until_expiry(ws[i], day)[1] <= 14}),
     used_waivers |-> None]

\* mutant: get_waiver_statistics that adds the used count to the
\* statistics kept since the last update
get_waiver_statistics_NoUpdate(stats, ws, day) ==
    [stats EXCEPT
        !.used_waivers = Some(Cardinality({i \in DOMAIN ws : ws[i].usage_count > 0}))]

\* WaiverManager.get_waiver_statistics: stats is self.statistics before the
\* call, which _update_statistics replaces
get_waiver_statistics(stats, ws, day) ==
    [update_statistics(ws, day) EXCEPT
        !.used_waivers = Some(Cardinality({i \in DOMAIN ws : ws[i].usage_count > 0}))]

\* WaiverManager.create_waiver_from_violation: the waiver appended
create_waiver_from_violation(ws, violation, file_path, expires_days, day) ==
    [NoWaiver EXCEPT
        !.id = "auto_" \o violation.rule_name \o "_" \o ToString(Len(ws)),
        !.type = "line_specific",
        !.pattern = violation.message,
        !.rule_names = << violation.rule_name >>,
        !.file_pattern = Some(file_path),
        !.line_number = Some(violation.line_number),
        !.column = Some(violation.column),
        !.expires = IF expires_days # 0 THEN Some(day + expires_days) ELSE None,
        !.code_content = Some(violation.code_snippet),
        !.active = TRUE]

-----------------------------------------------------------------------------
(* Operations of a WaiverManager used as a library *)

\* remaining, waived = self.apply_waivers(violations, file_path)
ApplyWaivers(violations, file_path) ==
    /\ now < MaxCalls
    /\ LET r == apply_waivers(waivers, violations, file_path, today, now + 1)
       IN  /\ waivers' = r.waivers
           /\ call' = [made |-> TRUE, violations |-> violations,
                       file_path |-> file_path, remaining |-> r.remaining,
                       waived |-> r.waived, before |-> waivers, day |-> today]
           /\ waivedTotal' = waivedTotal + Len(r.waived)
    /\ now' = now + 1
    /\ UNCHANGED << today, statistics, checkerVars, matchVars >>

\* midnight passes: date.today() moves on
Tick ==
    /\ today < MaxDay
    /\ today' = today + 1
    /\ UNCHANGED << waivers, now, call, waivedTotal, statistics, checkerVars,
                    matchVars >>

\* self.waivers[0].matches_violation(v, file_path)
MatchesViolation(v, file_path) ==
    /\ mresult = None
    /\ mv' = v
    /\ mp' = file_path
    /\ mresult' = Some(matches_violation(waivers[1], v, file_path, today))
    /\ UNCHANGED << waivers, today, now, call, waivedTotal, statistics,
                    checkerVars >>

-----------------------------------------------------------------------------
(* matches_violation as a function: a manager holding one waiver of any     *)
(* type and criteria is asked about one violation and path, and then        *)
(* applies its waiver to that violation                                     *)

MatchWaivers ==
    { WaiverRule("w", ty, pat, rn, fp, ln, col, ex, cc, mpat, sf, act) :
        ty \in WaiverTypes,
        pat \in {<< >>, S_Pas},
        rn \in {<< >>, <<"naming">>},
        fp \in {None, Some(S_g_glob)},
        ln \in {None, Some(10)},
        col \in {None, Some(4)},
        ex \in {None, Some(ExpiryDay)},
        cc \in {None, Some(S_code)},
        mpat \in {None, Some(S_re_C)},
        sf \in {<< >>, <<"error">>},
        act \in BOOLEAN }

\* what a violation says: line, column, message and code snippet.  Each
\* criterion of a waiver is met by one of them and missed by another.
MatchFindings ==
    { << 10, 4, S_msg_both, S_code_indented >>,
      << 11, 0, S_msg_sub, S_code_indented >>,
      << 10, 4, S_msg_re, S_code_Pas >>,
      << 11, 0, S_msg_none, S_code >> }

MatchViolations ==
    { Violation("v", rn, S_g_a_py, f[1], f[2], f[3], sev, f[4]) :
        rn \in {"naming", "imports"},
        sev \in {"error", "warning"},
        f \in MatchFindings }

MatchPaths == {S_a_py, S_g_a_py}

InitMatch ==
    /\ \E w \in MatchWaivers : waivers = << w >>
    /\ today \in {ExpiryDay, ExpiryDay + 1}
    /\ mv = NoViolation
    /\ mp = << >>
    /\ mresult = None
    /\ now = 0
    /\ rules_dir = << >>
    /\ config = NoConfig
    /\ available_rules = << >>
    /\ enabled_rules = << >>
    /\ call = NoCall
    /\ waivedTotal = 0
    /\ pc = "idle"
    /\ queue = << >>
    /\ results = << >>
    /\ fixMode = FALSE
    /\ report = None
    /\ fix_call = NoFixCall
    /\ created = NoInstance
    /\ statistics = update_statistics(waivers, today)

ApplyMatched ==
    /\ mresult # None
    /\ ~call.made
    /\ ApplyWaivers(<< mv >>, mp)

NextMatch ==
    \/ \E v \in MatchViolations, file_path \in MatchPaths :
           MatchesViolation(v, file_path)
    \/ ApplyMatched

SpecMatch == InitMatch /\ [][NextMatch]_vars

-----------------------------------------------------------------------------
(* apply_waivers on any waiver list: a manager whose list holds waivers of  *)
(* several types, some of them overlapping, expiring or inactive            *)

\* Scenario A: line waiver for a.py line 10, message containing "Pas"
W_line ==
    WaiverRule("A", "line_specific", S_Pas, <<"naming">>, Some(S_a_py),
               Some(10), None, None, None, None, << >>, TRUE)

\* Scenario C: bulk waiver for g/*.py, any rule
W_bulk ==
    WaiverRule("B", "bulk", << >>, << >>, Some(S_g_glob), None, None, None,
               None, None, << >>, TRUE)

\* a pattern waiver that expires after ExpiryDay
W_expiring ==
    WaiverRule("X", "pattern_based", S_Pas, << >>, None, None, None,
               Some(ExpiryDay), None, None, << >>, TRUE)

\* a rule waiver that has been switched off
W_inactive ==
    WaiverRule("I", "rule_based", << >>, <<"naming">>, None, None, None, None,
               None, None, << >>, FALSE)

ApplyWaiverSet == {W_line, W_bulk, W_expiring, W_inactive}

V_naming ==
    Violation("v1", "naming", S_a_py, 10, 4, S_msg_both, "error",
              S_code_indented)

V_imports ==
    Violation("v2", "imports", S_g_a_py, 11, 0, S_msg_re, "warning", S_code_Pas)

ApplyViolations == {V_naming, V_imports}

ApplyPaths == {S_a_py, S_g_a_py}

InitApply ==
    /\ waivers \in SeqsUpTo(ApplyWaiverSet, MaxWaivers)
    /\ today = ExpiryDay
    /\ now = 0
    /\ rules_dir = << >>
    /\ config = NoConfig
    /\ available_rules = << >>
    /\ enabled_rules = << >>
    /\ call = NoCall
    /\ waivedTotal = 0
    /\ pc = "idle"
    /\ queue = << >>
    /\ results = << >>
    /\ fixMode = FALSE
    /\ report = None
    /\ fix_call = NoFixCall
    /\ created = NoInstance
    /\ statistics = update_statistics(waivers, today)
    /\ mv = NoViolation
    /\ mp = << >>
    /\ mresult = None

NextApply ==
    \/ \E violations \in ListsUpTo(ApplyViolations, MaxViolations),
          file_path \in ApplyPaths :
           ApplyWaivers(violations, file_path)
    \/ Tick

SpecApply == InitApply /\ [][NextApply]_vars

-----------------------------------------------------------------------------
(* Policy files: what yaml.safe_load returns for <rule>_waivers.yml         *)

\* one entry of a section: a dict; a key that is absent is None here, so
\* that item.get(key) is item[key]
NoItem ==
    [id |-> None, violation_line |-> None, file_pattern |-> None,
     line_number |-> None, column |-> None, pattern |-> None, rules |-> None,
     rule |-> None, scope |-> None, expires |-> None, code_content |-> None,
     message_pattern |-> None, severity_filter |-> None, active |-> None]

\* item.get(key, default)
Get(item, key, default) == IF item[key] = None THEN default ELSE item[key][1]

\* a or b, for two Optional[str]
OrElse(a, b) == IF TruthyOpt(a) THEN a ELSE b

Severities == {"info", "warning", "error", "critical"}

DigitChars == <<"0", "1", "2", "3", "4", "5", "6", "7", "8", "9">>

\* str.isdigit()
isdigit(s) ==
    /\ s # << >>
    /\ \A i \in 1..Len(s) : \E d \in 1..Len(DigitChars) : DigitChars[d] = s[i]

DigitValue(c) == (CHOOSE d \in 1..Len(DigitChars) : DigitChars[d] = c) - 1

\* int(s) for a string of digits
RECURSIVE int(_)
int(s) ==
    IF s = << >> THEN 0
    ELSE 10 * int(SubSeq(s, 1, Len(s) - 1)) + DigitValue(s[Len(s)])

\* s.split(':', maxsplit)
RECURSIVE split(_, _)
split(s, maxsplit) ==
    IF maxsplit = 0 \/ ~ \E i \in 1..Len(s) : s[i] = ":" THEN << s >>
    ELSE LET i == CHOOSE j \in 1..Len(s) :
                      /\ s[j] = ":"
                      /\ \A k \in 1..(j - 1) : s[k] # ":"
         IN  << SubSeq(s, 1, i - 1) >>
                 \o split(SubSeq(s, i + 1, Len(s)), maxsplit - 1)

\* _parse_date for the value of a date key: YAML loads an unquoted date as a
\* date object, which is returned as it is; an absent key gives None
parse_date(d) == IF d = None THEN None ELSE d

\* mutant: a `rules` field that replaces the rule of the policy file
scoped_rules_Replaces(item, rule_name) == Get(item, "rules", << rule_name >>)

\* item.get('rules', [rule_name]) with rule_name appended when missing
scoped_rules(item, rule_name) ==
    LET rules == Get(item, "rules", << rule_name >>)
    IN  IF InList(rule_name, rules) THEN rules ELSE Append(rules, rule_name)

\* f"{kind}_{rule_name}_{len(self.waivers)}"
default_id(kind, rule_name, n) == kind \o "_" \o rule_name \o "_" \o ToString(n)

\* _parse_rule_waiver(item, rule_name) with n == len(self.waivers)
parse_rule_waiver(item, rule_name, n) ==
    LET r0 == IF item.rule # None /\ item.rule[1] # "" THEN << item.rule[1] >>
              ELSE Get(item, "rules", << >>)
        waiver_rule_names ==
            IF ~Truthy(r0) THEN << rule_name >>
            ELSE IF ~InList(rule_name, r0) THEN Append(r0, rule_name)
            ELSE r0
    IN  Some([NoWaiver EXCEPT
                 !.id = Get(item, "id", default_id("rule", rule_name, n)),
                 !.type = "rule_based",
                 !.rule_names = waiver_rule_names,
                 !.file_pattern = OrElse(item.scope, item.file_pattern),
                 !.expires = parse_date(item.expires),
                 !.active = Get(item, "active", TRUE)])

\* _parse_file_waiver(item, rule_name)
parse_file_waiver(item, rule_name, n) ==
    Some([NoWaiver EXCEPT
             !.id = Get(item, "id", default_id("file", rule_name, n)),
             !.type = "pattern_based",
             !.rule_names = << rule_name >>,
             !.file_pattern = OrElse(item.pattern, item.file_pattern),
             !.expires = parse_date(item.expires),
             !.active = Get(item, "active", TRUE)])

\* _parse_line_waiver(item, rule_name): the location comes from
\* violation_line ("file:line:col: message") when the entry has one, and
\* from the keys file_pattern, line_number, column and pattern otherwise
parse_line_waiver(item, rule_name, n) ==
    LET violation_line == Get(item, "violation_line", << >>)
        parts == split(violation_line, 3)
        loc ==
            IF Truthy(violation_line)
            THEN IF Len(parts) >= 4
                 THEN [file_pattern |-> Some(parts[1]),
                       line_number |-> IF isdigit(parts[2])
                                       THEN Some(int(parts[2])) ELSE None,
                       column |-> IF isdigit(parts[3])
                                  THEN Some(int(parts[3])) ELSE None,
                       message_part |-> Strip(parts[4])]
                 ELSE [file_pattern |-> None, line_number |-> None,
                       column |-> None, message_part |-> violation_line]
            ELSE [file_pattern |-> item.file_pattern,
                  line_number |-> item.line_number,
                  column |-> item.column,
                  message_part |-> Get(item, "pattern", << >>)]
    IN  Some([NoWaiver EXCEPT
                 !.id = Get(item, "id", default_id("line", rule_name, n)),
                 !.type = "line_specific",
                 !.pattern = loc.message_part,
                 !.rule_names = scoped_rules(item, rule_name),
                 !.file_pattern = loc.file_pattern,
                 !.line_number = loc.line_number,
                 !.column = loc.column,
                 !.expires = parse_date(item.expires),
                 !.code_content = item.code_content,
                 !.message_pattern = item.message_pattern,
                 !.active = Get(item, "active", TRUE)])

\* _parse_pattern_waiver(item, rule_name): Severity(s) raises for a name
\* that is no severity, and the entry is then dropped
parse_pattern_waiver(item, rule_name, n) ==
    LET severity_filter == Get(item, "severity_filter", << >>)
    IN  IF \E i \in 1..Len(severity_filter) : severity_filter[i] \notin Severities
        THEN None
        ELSE Some([NoWaiver EXCEPT
                 !.id = Get(item, "id", default_id("pattern", rule_name, n)),
                 !.type = "pattern_based",
                 !.pattern = Get(item, "pattern", << >>),
                 !.rule_names = scoped_rules(item, rule_name),
                 !.file_pattern = item.file_pattern,
                 !.expires = parse_date(item.expires),
                 !.message_pattern = item.message_pattern,
                 !.severity_filter = severity_filter,
                 !.active = Get(item, "active", TRUE)])

\* _parse_bulk_waiver(item, rule_name): the entry's pattern is the file glob
parse_bulk_waiver(item, rule_name, n) ==
    Some([NoWaiver EXCEPT
             !.id = Get(item, "id", default_id("bulk", rule_name, n)),
             !.type = "bulk",
             !.pattern = Get(item, "pattern", << >>),
             !.rule_names = scoped_rules(item, rule_name),
             !.file_pattern = item.pattern,
             !.expires = parse_date(item.expires),
             !.active = Get(item, "active", TRUE)])

\* the parser _load_rule_waiver_file calls for the entries of a section
parse_item(section, item, rule_name, n) ==
    CASE section = "rule_waivers" -> parse_rule_waiver(item, rule_name, n)
      [] section = "file_waivers" -> parse_file_waiver(item, rule_name, n)
      [] section = "line_waivers" -> parse_line_waiver(item, rule_name, n)
      [] section = "pattern_waivers" -> parse_pattern_waiver(item, rule_name, n)

\* for item in data.get(section, []): parse and append
RECURSIVE load_section(_, _, _, _, _)
load_section(ws, section, items, rule_name, i) ==
    IF i > Len(items) THEN ws
    ELSE LET waiver == parse_item(section, items[i], rule_name, Len(ws))
         IN  load_section(IF waiver # None THEN Append(ws, waiver[1]) ELSE ws,
                          section, items, rule_name, i + 1)

\* a policy file without entries; loads says that open() and
\* yaml.safe_load(f) succeed on it
NoData ==
    [loads |-> TRUE, rule_waivers |-> << >>, file_waivers |-> << >>,
     line_waivers |-> << >>, pattern_waivers |-> << >>, bulk_waivers |-> << >>]

\* mutant: _load_rule_waiver_file that reads the rule waivers last
load_rule_waiver_file_RulesLast(ws, data, rule_name) ==
    IF ~data.loads THEN ws ELSE
    LET w1 == load_section(ws, "file_waivers", data.file_waivers, rule_name, 1)
        w2 == load_section(w1, "line_waivers", data.line_waivers, rule_name, 1)
        w3 == load_section(w2, "pattern_waivers", data.pattern_waivers, rule_name, 1)
    IN  load_section(w3, "rule_waivers", data.rule_waivers, rule_name, 1)

\* _load_rule_waiver_file(waiver_file, rule_name): the sections are read in
\* this order; a file that cannot be opened or is no YAML is reported and
\* adds nothing
load_rule_waiver_file(ws, data, rule_name) ==
    IF ~data.loads THEN ws ELSE
    LET w1 == load_section(ws, "rule_waivers", data.rule_waivers, rule_name, 1)
        w2 == load_section(w1, "file_waivers", data.file_waivers, rule_name, 1)
        w3 == load_section(w2, "line_waivers", data.line_waivers, rule_name, 1)
    IN  load_section(w3, "pattern_waivers", data.pattern_waivers, rule_name, 1)

\* mutant: a policy file that cannot be loaded ends the loading
RECURSIVE load_dirs_StopsAtFailure(_, _, _)
load_dirs_StopsAtFailure(ws, dirs, i) ==
    IF i > Len(dirs) THEN ws
    ELSE LET rule_dir == dirs[i]
         IN  IF rule_dir.waiver_file # None /\ ~rule_dir.waiver_file[1].loads
             THEN ws
             ELSE load_dirs_StopsAtFailure(
                      IF rule_dir.is_dir /\ rule_dir.name # "__pycache__"
                           /\ rule_dir.waiver_file # None
                      THEN load_rule_waiver_file(ws, rule_dir.waiver_file[1],
                                                 rule_dir.name)
                      ELSE ws,
                      dirs, i + 1)

\* for rule_dir in self.rules_directory.iterdir(): load the policy file of
\* every directory that has one
RECURSIVE load_dirs(_, _, _)
load_dirs(ws, dirs, i) ==
    IF i > Len(dirs) THEN ws
    ELSE LET rule_dir == dirs[i]
         IN  load_dirs(IF rule_dir.is_dir /\ rule_dir.name # "__pycache__"
                            /\ rule_dir.waiver_file # None
                       THEN load_rule_waiver_file(ws, rule_dir.waiver_file[1],
                                                  rule_dir.name)
                       ELSE ws,
                       dirs, i + 1)

\* load_all_rule_waivers(): self.waivers afterwards
load_all_rule_waivers(dirs) == load_dirs(<< >>, dirs, 1)

\* stats = self.get_waiver_statistics()
GetWaiverStatistics ==
    /\ statistics' = get_waiver_statistics(statistics, waivers, today)
    /\ UNCHANGED << waivers, today, now, call, waivedTotal, checkerVars,
                    matchVars >>

\* self.create_waiver_from_violation(violation, file_path, reason,
\* approved_by, expires_days); expires_days = 0 stands for a falsy argument.
\* At most MaxCreated waivers are added to the loaded ones.
CreateWaiverFromViolation(violation, file_path, expires_days) ==
    /\ Len(waivers) < Len(load_all_rule_waivers(rules_dir)) + MaxCreated
    /\ waivers' = Append(waivers,
                         create_waiver_from_violation(waivers, violation,
                                                      file_path, expires_days,
                                                      today))
    /\ UNCHANGED << today, now, call, waivedTotal, statistics, checkerVars,
                    matchVars >>

-----------------------------------------------------------------------------
(* ConsistencyChecker: discovery, selection and execution of rules          *)

\* mutant: _discover_rules whose loop ends at the first directory that fails
RECURSIVE discover_rules_StopsAtFailure(_)
discover_rules_StopsAtFailure(dirs) ==
    IF dirs = << >> THEN << >>
    ELSE LET rule_dir == Head(dirs)
         IN  IF ~rule_dir.is_dir \/ rule_dir.name = "__pycache__"
             THEN discover_rules_StopsAtFailure(Tail(dirs))
             ELSE IF rule_dir.script /\ rule_dir.module = "ok"
             THEN << rule_dir >> \o discover_rules_StopsAtFailure(Tail(dirs))
             ELSE << >>

\* _discover_rules(): a directory with a rule script whose module loads and
\* holds a BaseRule class becomes an available rule, keyed by directory name
discover_rules(dirs) ==
    SelectSeq(dirs, LAMBDA rule_dir :
        /\ rule_dir.is_dir
        /\ rule_dir.name # "__pycache__"
        /\ rule_dir.script
        /\ rule_dir.module = "ok")

\* list(self.available_rules.keys())
rule_keys(available) == [i \in 1..Len(available) |-> available[i].name]

\* mutant: _get_enabled_rules that consults the deny-list only when no
\* allow-list is given
get_enabled_rules_AllowWins(cfg, available) ==
    LET all_rule_names == rule_keys(available)
        not_disabled(name) == ~InList(name, cfg.disabled_rules)
        chosen == IF ~Truthy(cfg.enabled_rules)
                  THEN SelectSeq(all_rule_names, not_disabled)
                  ELSE cfg.enabled_rules
    IN  SelectSeq(chosen, LAMBDA name : InList(name, all_rule_names))

\* _get_enabled_rules()
get_enabled_rules(cfg, available) ==
    LET all_rule_names == rule_keys(available)
        not_disabled(name) == ~InList(name, cfg.disabled_rules)
        chosen == IF ~Truthy(cfg.enabled_rules)
                  THEN SelectSeq(all_rule_names, not_disabled)
                  ELSE SelectSeq(cfg.enabled_rules, not_disabled)
    IN  SelectSeq(chosen, LAMBDA name : InList(name, all_rule_names))

\* dict.update(other)
update(d, other) == [k \in ConfigKeys |-> IF other[k] # None THEN other[k] ELSE d[k]]

\* mutant: _create_rule_instance where the rule's own file wins
create_rule_instance_FileWins(config_file, global_rule_config) ==
    IF config_file # None /\ ~config_file[1].raises
    THEN update(global_rule_config, config_file[1].parameters)
    ELSE global_rule_config

\* _create_rule_instance(rule_name): the rule_config passed to the rule
\* class, for a rule whose config file is absent (None), cannot be loaded
\* (raises) or holds `parameters`, under the global rule_config of the rule
create_rule_instance(config_file, global_rule_config) ==
    LET rule_config == IF config_file # None /\ ~config_file[1].raises
                       THEN config_file[1].parameters
                       ELSE EmptyDict
    IN  update(rule_config, global_rule_config)

\* BaseRule.__init__(config): self.config
BaseRule_init(cfg) == cfg

\* the names of the model in the order Python's string comparison gives them
NameOrder == <<"__pycache__", "docs", "imports", "naming">>

Rank(name) == CHOOSE i \in 1..Len(NameOrder) : NameOrder[i] = name

\* sorted(names)
RECURSIVE sorted(_)
sorted(names) ==
    IF names = << >> THEN << >>
    ELSE LET i == CHOOSE j \in 1..Len(names) :
                      \A k \in 1..Len(names) :
                          \/ Rank(names[j]) < Rank(names[k])
                          \/ Rank(names[j]) = Rank(names[k]) /\ j <= k
         IN  << names[i] >>
                 \o sorted([k \in 1..(Len(names) - 1) |->
                               IF k < i THEN names[k] ELSE names[k + 1]])

\* CheckResult(...): fix_result is None while the object has no such
\* attribute, and Some(fixed_violations) once run_rule has stored a FixResult
CheckResult(rule_name, success, error_message, violations) ==
    [rule_name |-> rule_name, success |-> success,
     error_message |-> error_message, violations |-> violations,
     waived_violations |-> << >>, waiver_count |-> 0, fix_result |-> None]

\* str(self.repo_root)
S_root == <<"/", "r">>                                \* "/r"

\* the except branch of run_rule
failed_result(rule_name, message) == CheckResult(rule_name, FALSE, message, << >>)

\* mutant: run_rule that stores the waived violations and leaves
\* result.violations as check returned it
run_rule_KeepsWaived(rule, outcome, fix_outcome, fix, ws, day, t) ==
    IF outcome.kind # "returns"
    THEN [result |-> failed_result(rule.name, outcome.message),
          waivers |-> ws, applied |-> FALSE, remaining |-> << >>,
          fixing |-> FALSE, fix_args |-> << >>]
    ELSE LET checked == outcome.result
             applied == Truthy(checked.violations)
             a == apply_waivers(ws, checked.violations, S_root, day, t)
             waived ==
                 IF applied
                 THEN [checked EXCEPT !.waived_violations = a.waived,
                                      !.waiver_count = Len(a.waived)]
                 ELSE checked
             fixing == fix /\ Truthy(waived.violations) /\ rule.has_fix
             fixed_violations ==
                 SelectSeq(waived.violations,
                           LAMBDA v : v.id \in fix_outcome.fixed)
             fixed ==
                 IF fixing /\ ~fix_outcome.raises
                 THEN [waived EXCEPT
                          !.fix_result = Some(fixed_violations),
                          !.violations =
                              IF Truthy(fixed_violations)
                              THEN SelectSeq(waived.violations,
                                             LAMBDA v : v.id \notin fix_outcome.fixed)
                              ELSE waived.violations]
                 ELSE waived
         IN  [result |-> fixed,
              waivers |-> IF applied THEN a.waivers ELSE ws,
              applied |-> applied,
              remaining |-> IF applied THEN a.remaining ELSE << >>,
              fixing |-> fixing,
              fix_args |-> IF fixing THEN waived.violations ELSE << >>]

\* mutant: run_rule that hands fix every violation check returned
run_rule_FixesAll(rule, outcome, fix_outcome, fix, ws, day, t) ==
    IF outcome.kind # "returns"
    THEN [result |-> failed_result(rule.name, outcome.message),
          waivers |-> ws, applied |-> FALSE, remaining |-> << >>,
          fixing |-> FALSE, fix_args |-> << >>]
    ELSE LET checked == outcome.result
             applied == Truthy(checked.violations)
             a == apply_waivers(ws, checked.violations, S_root, day, t)
             waived ==
                 IF applied
                 THEN [checked EXCEPT !.violations = a.remaining,
                                      !.waived_violations = a.waived,
                                      !.waiver_count = Len(a.waived)]
                 ELSE checked
             fixing == fix /\ Truthy(waived.violations) /\ rule.has_fix
             fixed_violations ==
                 SelectSeq(checked.violations,
                           LAMBDA v : v.id \in fix_outcome.fixed)
             fixed ==
                 IF fixing /\ ~fix_outcome.raises
                 THEN [waived EXCEPT
                          !.fix_result = Some(fixed_violations),
                          !.violations =
                              IF Truthy(fixed_violations)
                              THEN SelectSeq(waived.violations,
                                             LAMBDA v : v.id \notin fix_outcome.fixed)
                              ELSE waived.violations]
                 ELSE waived
         IN  [result |-> fixed,
              waivers |-> IF applied THEN a.waivers ELSE ws,
              applied |-> applied,
              remaining |-> IF applied THEN a.remaining ELSE << >>,
              fixing |-> fixing,
              fix_args |-> IF fixing THEN checked.violations ELSE << >>]

\* the auto-fix step of run_rule on the result as the waiver step left it,
\* and what run_rule returns: the CheckResult, the waiver list afterwards,
\* whether apply_waivers was called, what it returned as remaining, whether
\* rule.fix was called and with which violations
fix_step(rule, result, fix_outcome, fix, ws, applied, remaining) ==
    LET fixing == fix /\ Truthy(result.violations) /\ rule.has_fix
        fixed_violations ==
            SelectSeq(result.violations, LAMBDA v : v.id \in fix_outcome.fixed)
    IN  [result |->
             IF fixing /\ ~fix_outcome.raises
             THEN [result EXCEPT
                      !.fix_result = Some(fixed_violations),
                      !.violations =
                          IF Truthy(fixed_violations)
                          THEN SelectSeq(result.violations,
                                         LAMBDA v : v.id \notin fix_outcome.fixed)
                          ELSE result.violations]
             ELSE result,
         waivers |-> ws,
         applied |-> applied,
         remaining |-> remaining,
         fixing |-> fixing,
         fix_args |-> IF fixing THEN result.violations ELSE << >>]

\* the waiver step of run_rule, a being what apply_waivers returned for the
\* violations of the result of check
waiver_step(rule, checked, a, fix_outcome, fix) ==
    fix_step(rule,
             [checked EXCEPT !.violations = a.remaining,
                             !.waived_violations = a.waived,
                             !.waiver_count = Len(a.waived)],
             fix_outcome, fix, a.waivers, TRUE, a.remaining)

\* run_rule(rule_name, files, fix, verbose) for a rule whose construction and
\* check behave as `outcome` says and whose fix behaves as `fix_outcome` says
run_rule(rule, outcome, fix_outcome, fix, ws, day, t) ==
    IF outcome.kind # "returns"
    THEN [result |-> failed_result(rule.name, outcome.message),
          waivers |-> ws, applied |-> FALSE, remaining |-> << >>,
          fixing |-> FALSE, fix_args |-> << >>]
    ELSE IF Truthy(outcome.result.violations)
    THEN waiver_step(rule, outcome.result,
                     apply_waivers(ws, outcome.result.violations, S_root, day, t),
                     fix_outcome, fix)
    ELSE fix_step(rule, outcome.result, fix_outcome, fix, ws, FALSE, << >>)

\* what a rule object may do when run_rule constructs and checks it: the
\* constructor raises, check raises, or check returns a CheckResult
S_boom == <<"b", "o", "o", "m">>                      \* "boom"

\* str(e) of the exception raised: an exception built without arguments
\* prints as the empty string
Messages == {<< >>, S_boom}

V_naming_g ==
    Violation("v3", "naming", S_g_a_py, 11, 0, S_msg_sub, "warning", S_code)

V_imports_a ==
    Violation("v4", "imports", S_a_py, 10, 4, S_msg_both, "error", S_code_Pas)

RunViolations == {V_naming, V_naming_g, V_imports, V_imports_a}

\* the violations a rule reports carry its name
RuleViolations(rule_name) == {v \in RunViolations : v.rule_name = rule_name}

CheckOutcomes(rule_name) ==
    { [kind |-> k, message |-> m, result |-> failed_result(rule_name, m)] :
        k \in {"init_raises", "check_raises"}, m \in Messages }
    \cup
    { [kind |-> "returns", message |-> << >>,
       result |-> CheckResult(rule_name, TRUE, << >>, vs)] :
        vs \in ListsUpTo(RuleViolations(rule_name), MaxViolations) }
    \cup
    { [kind |-> "returns", message |-> << >>,
       result |-> CheckResult(rule_name, FALSE, S_boom, vs)] :
        vs \in ListsUpTo(RuleViolations(rule_name), 1) }

\* what rule.fix may do: raise, or return a FixResult naming the violations
\* it fixed
FixOutcomes(rule_name) ==
    { [raises |-> TRUE, fixed |-> {}] }
    \cup
    { [raises |-> FALSE, fixed |-> ids] :
        ids \in SUBSET {v.id : v \in RuleViolations(rule_name)} }

\* fix is not called
NoFix == [raises |-> FALSE, fixed |-> {}]

\* run_all_rules(files, fix, verbose) is called: with no rule enabled it
\* returns [] at once, otherwise the loop over sorted(self.enabled_rules)
\* starts
RunAllRules(fix) ==
    /\ pc = "idle"
    /\ fixMode' = fix
    /\ results' = << >>
    /\ IF ~Truthy(enabled_rules)
       THEN /\ pc' = "returned"
            /\ queue' = << >>
       ELSE /\ pc' = "running"
            /\ queue' = sorted(enabled_rules)
    /\ UNCHANGED << waivers, today, now, call, waivedTotal, rules_dir, config,
                    available_rules, enabled_rules, report, fix_call, created,
                    statistics, matchVars >>

\* the entry of available_rules under a name
RuleNamed(name) ==
    available_rules[CHOOSE i \in 1..Len(available_rules) :
                        available_rules[i].name = name]

\* what one run_rule call leaves behind, r being what run_rule gave for the
\* rule: the waiver list, and the record of the apply_waivers call and of
\* the rule.fix call it made
RanRule(rule_name, r, outcome, fix_outcome) ==
    /\ IF r.fixing THEN fix_outcome \in FixOutcomes(rule_name)
       ELSE fix_outcome = NoFix
    /\ waivers' = r.waivers
    /\ IF r.applied
       THEN /\ now' = now + 1
            /\ call' = [made |-> TRUE,
                        violations |-> outcome.result.violations,
                        file_path |-> S_root,
                        remaining |-> r.remaining,
                        waived |-> r.result.waived_violations,
                        before |-> waivers, day |-> today]
            /\ waivedTotal' = waivedTotal + r.result.waiver_count
       ELSE UNCHANGED << now, call, waivedTotal >>
    /\ fix_call' = IF r.fixing
                   THEN [made |-> TRUE, rule_name |-> rule_name,
                         success |-> outcome.result.success,
                         violations |-> r.fix_args,
                         raises |-> fix_outcome.raises,
                         fixed |-> fix_outcome.fixed]
                   ELSE fix_call

\* the body of the loop of run_all_rules, r being what run_rule gave:
\* results.append, the progress line, and the read of result.fix_result,
\* which raises AttributeError when run_rule has not stored one
LoopBody(rule_name, r, outcome, fix_outcome) ==
    /\ RanRule(rule_name, r, outcome, fix_outcome)
    /\ results' = Append(results, r.result)
    /\ IF r.result.fix_result = None
       THEN /\ pc' = "raised"
            /\ queue' = queue
       ELSE /\ queue' = Tail(queue)
            /\ pc' = IF Tail(queue) = << >> THEN "returned" ELSE "running"

\* one turn of the loop of run_all_rules: run_rule for the next rule name
\* and the rest of the loop body
RunRule(outcome, fix_outcome) ==
    /\ pc = "running"
    /\ outcome.result.rule_name = Head(queue)
    /\ outcome \in CheckOutcomes(Head(queue))
    /\ LoopBody(Head(queue),
                run_rule(RuleNamed(Head(queue)), outcome, fix_outcome, fixMode,
                         waivers, today, now + 1),
                outcome, fix_outcome)
    /\ UNCHANGED << today, rules_dir, config, available_rules, enabled_rules,
                    fixMode, report, created, statistics, matchVars >>

\* mutant: CheckResult.passed that looks at the violations only
passed_IgnoresSuccess(result) ==
    \A i \in DOMAIN result.violations :
        result.violations[i].severity \notin {"error", "critical"}

\* CheckResult.passed
passed(result) ==
    /\ result.success
    /\ Cardinality({i \in DOMAIN result.violations :
                       result.violations[i].severity \in {"error", "critical"}}) = 0

\* sum(numbers)
RECURSIVE sum(_)
sum(numbers) ==
    IF numbers = << >> THEN 0 ELSE Head(numbers) + sum(Tail(numbers))

\* ReportGenerator._prepare_report_data: the summary of report_data
prepare_report_data(rs) ==
    LET total_rules == Len(rs)
        passed_rules ==
            sum([i \in DOMAIN rs |-> IF passed(rs[i]) THEN 1 ELSE 0])
        count(r, severity) ==
            Cardinality({i \in DOMAIN r.violations :
                            r.violations[i].severity = severity})
        by_severity(severity) ==
            sum([i \in DOMAIN rs |-> count(rs[i], severity)])
    IN  [total_rules |-> total_rules,
         passed_rules |-> passed_rules,
         failed_rules |-> total_rules - passed_rules,
         total_violations |-> sum([i \in DOMAIN rs |-> Len(rs[i].violations)]),
         total_waived |-> sum([i \in DOMAIN rs |-> rs[i].waiver_count]),
         violations_by_severity |-> [severity \in Severities |-> by_severity(severity)]]

\* ReportGenerator._show_final_summary: the exit code
show_final_summary(summary) ==
    IF summary.violations_by_severity["critical"] > 0 THEN 2
    ELSE IF summary.violations_by_severity["error"] > 0 THEN 1
    ELSE 0

\* generate_report(results, "console"): the summary prepared and the exit
\* code returned
generate_report(rs) ==
    LET summary == prepare_report_data(rs)
    IN  [summary |-> summary, results |-> rs,
         exit_code |-> show_final_summary(summary)]

\* the run-all command goes on after run_all_rules returned: it reports
GenerateReport ==
    /\ pc = "returned"
    /\ report' = Some(generate_report(results))
    /\ statistics' = get_waiver_statistics(statistics, waivers, today)
    /\ pc' = "reported"
    /\ UNCHANGED << waivers, today, now, call, waivedTotal, rules_dir, config,
                    available_rules, enabled_rules, queue, results, fixMode,
                    fix_call, created, matchVars >>

\* the run-rule command after run_rule gave r: the report of the one result
CommandBody(rule_name, r, outcome, fix_outcome) ==
    /\ RanRule(rule_name, r, outcome, fix_outcome)
    /\ results' = << r.result >>
    /\ report' = Some(generate_report(<< r.result >>))
    /\ statistics' = get_waiver_statistics(statistics, r.waivers, today)
    /\ pc' = "reported"

\* the run-rule command: run_rule for one rule name, then the report of its
\* one result; an unknown name exits, a disabled rule runs when the user
\* confirms and exits when not
RunRuleCommand(rule_name, fix, confirm) ==
    /\ pc = "idle"
    /\ fixMode' = fix
    /\ IF ~InList(rule_name, rule_keys(available_rules))
          \/ (~InList(rule_name, enabled_rules) /\ ~confirm)
       THEN /\ pc' = "exited"
            /\ UNCHANGED << waivers, now, call, waivedTotal, results, report,
                            fix_call, statistics >>
       ELSE \E outcome \in CheckOutcomes(rule_name),
               fix_outcome \in FixOutcomes(rule_name) \cup {NoFix} :
                CommandBody(rule_name,
                            run_rule(RuleNamed(rule_name), outcome, fix_outcome,
                                     fix, waivers, today, now + 1),
                            outcome, fix_outcome)
    /\ UNCHANGED << today, rules_dir, config, available_rules, enabled_rules,
                    queue, created, matchVars >>

\* _create_rule_instance for a rule class whose schema declares
\* `schema_defaults`
CreateRuleInstance(config_file, global_rule_config, schema_defaults) ==
    /\ created' = [made |-> TRUE, config_file |-> config_file,
                   global_rule_config |-> global_rule_config,
                   schema_defaults |-> schema_defaults,
                   config |-> BaseRule_init(
                       create_rule_instance(config_file, global_rule_config))]
    /\ UNCHANGED << waivers, today, now, call, waivedTotal, rules_dir, config,
                    available_rules, enabled_rules, pc, queue, results,
                    fixMode, report, fix_call, statistics, matchVars >>

\* the dicts of the model: each key absent or holding one of two values
Dicts == [ConfigKeys -> {None, Some(1), Some(2)}]

ConfigFiles ==
    {None} \cup {Some([raises |-> r, parameters |-> d]) : r \in BOOLEAN, d \in Dicts}

-----------------------------------------------------------------------------
(* The checker on a repository: the rules directory it is constructed on    *)

S_root_glob == <<"/", "*">>                           \* "/*"
S_vline == <<"a", ".", "p", "y", ":", "1", "0", ":", "4", ":", " ", "P", "a", "s">>
                                                      \* "a.py:10:4: Pas"

\* Scenario A: line waiver for a.py line 10, message containing "Pas"
I_line ==
    [NoItem EXCEPT !.id = Some("A"), !.file_pattern = Some(S_a_py),
                   !.line_number = Some(10), !.pattern = Some(S_Pas)]

\* the same waiver written as a violation line
I_vline == [NoItem EXCEPT !.violation_line = Some(S_vline)]

\* Scenario C: bulk waiver for g/*.py
I_bulk == [NoItem EXCEPT !.id = Some("B"), !.pattern = Some(S_g_glob)]

\* a pattern waiver for messages containing "Pas", expiring after ExpiryDay
I_pattern ==
    [NoItem EXCEPT !.pattern = Some(S_Pas), !.expires = Some(ExpiryDay)]

\* a pattern waiver for files under g/, any message matching "^C .*s"
I_pattern_g ==
    [NoItem EXCEPT !.file_pattern = Some(S_g_glob),
                   !.message_pattern = Some(S_re_C)]

\* a pattern waiver for errors whose message or code contains "Pas"
I_pattern_error ==
    [NoItem EXCEPT !.pattern = Some(S_Pas), !.severity_filter = Some(<<"error">>)]

\* a rule waiver scoped to what lies directly under the file system root
I_rule_root == [NoItem EXCEPT !.scope = Some(S_root_glob)]

\* a file waiver for g/*.py
I_file == [NoItem EXCEPT !.pattern = Some(S_g_glob)]

P_line_bulk ==
    [NoData EXCEPT !.line_waivers = << I_line >>, !.bulk_waivers = << I_bulk >>]

P_pattern_rule ==
    [NoData EXCEPT !.pattern_waivers = << I_pattern, I_pattern_g >>,
                   !.rule_waivers = << I_rule_root >>]

P_file_vline ==
    [NoData EXCEPT !.file_waivers = << I_file >>, !.line_waivers = << I_vline >>]

P_pattern_error == [NoData EXCEPT !.pattern_waivers = << I_pattern_error >>]

P_bulk == [NoData EXCEPT !.bulk_waivers = << I_bulk >>]

\* an entry of the rules directory; like the rules of the repository, its
\* rule class declares the directory's name in its RuleMetadata
RuleDir(name, is_dir, script, module, has_fix, waiver_file) ==
    [name |-> name, is_dir |-> is_dir, script |-> script, module |-> module,
     has_fix |-> has_fix, waiver_file |-> waiver_file, metadata_name |-> name]

\* a rule directory whose rule class declares another name
Renamed(rule_dir, metadata_name) ==
    [rule_dir EXCEPT !.metadata_name = metadata_name]

\* the naming rule: it may offer fix, and may have a policy file
NamingDirs ==
    { RuleDir("naming", TRUE, TRUE, "ok", has_fix, waiver_file) :
        has_fix \in BOOLEAN,
        waiver_file \in {None, Some(P_line_bulk), Some(P_pattern_rule),
                         Some(P_pattern_error)} }

\* the imports rule: its module may fail to load
ImportsDirs ==
    { RuleDir("imports", TRUE, TRUE, "ok", has_fix, waiver_file) :
        has_fix \in BOOLEAN,
        waiver_file \in {None, Some(P_file_vline)} }
    \cup { RuleDir("imports", TRUE, TRUE, "ok", TRUE, Some(P_pattern_error)) }
    \cup { RuleDir("imports", TRUE, TRUE, "raises", FALSE, Some(P_bulk)),
           RuleDir("imports", TRUE, TRUE, "no_class", FALSE, None) }

PycacheDir == RuleDir("__pycache__", TRUE, FALSE, "ok", FALSE, None)

\* a directory without a rule script
DocsDir == RuleDir("docs", TRUE, FALSE, "ok", FALSE, None)

\* the listings iterdir() may give, in any order
RulesDirs ==
    { << n, i >> : n \in NamingDirs, i \in ImportsDirs }
    \cup { << i, n >> : n \in NamingDirs,
                         i \in {d \in ImportsDirs : d.module # "ok" \/ d.has_fix} }
    \cup { << PycacheDir, n, DocsDir >> : n \in NamingDirs }
    \cup { << DocsDir >> }

Configs ==
    { NoConfig,
      [enabled_rules |-> <<"naming", "imports", "missing">>,
       disabled_rules |-> <<"naming">>],
      [enabled_rules |-> << >>, disabled_rules |-> <<"imports">>] }

\* the state after ConsistencyChecker(repo_root)
Init ==
    /\ rules_dir \in RulesDirs
    /\ config \in Configs
    /\ today = ExpiryDay
    /\ waivers = load_all_rule_waivers(rules_dir)
    /\ available_rules = discover_rules(rules_dir)
    /\ enabled_rules = get_enabled_rules(config, available_rules)
    /\ now = 0
    /\ call = NoCall
    /\ waivedTotal = 0
    /\ pc = "idle"
    /\ queue = << >>
    /\ results = << >>
    /\ fixMode = FALSE
    /\ report = None
    /\ fix_call = NoFixCall
    /\ created = NoInstance
    /\ statistics = update_statistics(waivers, today)
    /\ mv = NoViolation
    /\ mp = << >>
    /\ mresult = None

AllCheckOutcomes == UNION {CheckOutcomes(name) : name \in {"naming", "imports"}}

AllFixOutcomes == UNION {FixOutcomes(name) : name \in {"naming", "imports"}}

Next ==
    \/ \E fix \in BOOLEAN : RunAllRules(fix)
    \/ \E outcome \in AllCheckOutcomes, fix_outcome \in AllFixOutcomes :
           RunRule(outcome, fix_outcome)
    \/ GenerateReport
    \/ \E rule_name \in {"naming", "imports", "missing"}, fix \in BOOLEAN,
          confirm \in BOOLEAN :
           RunRuleCommand(rule_name, fix, confirm)
    \/ Tick

Spec == Init /\ [][Next]_vars

-----------------------------------------------------------------------------
(* A ConsistencyChecker over rules whose classes declare any name, asked    *)
(* for rule instances                                                       *)

\* rule directories without policy files; in some the rule class declares
\* a name that is not the directory's
ConfigRulesDirs ==
    { << RuleDir("naming", TRUE, TRUE, "ok", FALSE, None),
         RuleDir("imports", TRUE, TRUE, "ok", FALSE, None) >>,
      << RuleDir("naming", TRUE, TRUE, "ok", FALSE, None),
         Renamed(RuleDir("imports", TRUE, TRUE, "ok", FALSE, None), "naming") >>,
      << Renamed(RuleDir("naming", TRUE, TRUE, "ok", FALSE, None), "style") >> }

InitConfig ==
    /\ waivers = << >>
    /\ today = ExpiryDay
    /\ now = 0
    /\ rules_dir \in ConfigRulesDirs
    /\ config = NoConfig
    /\ available_rules = discover_rules(rules_dir)
    /\ enabled_rules = get_enabled_rules(config, available_rules)
    /\ call = NoCall
    /\ waivedTotal = 0
    /\ pc = "idle"
    /\ queue = << >>
    /\ results = << >>
    /\ fixMode = FALSE
    /\ report = None
    /\ fix_call = NoFixCall
    /\ created = NoInstance
    /\ statistics = update_statistics(waivers, today)
    /\ mv = NoViolation
    /\ mp = << >>
    /\ mresult = None

NextConfig ==
    \E config_file \in ConfigFiles, global_rule_config \in Dicts,
       schema_defaults \in Dicts :
        CreateRuleInstance(config_file, global_rule_config, schema_defaults)

SpecConfig == InitConfig /\ [][NextConfig]_vars

-----------------------------------------------------------------------------
(* A WaiverManager over a rules directory whose policy files hold waivers   *)
(* of every section, some of them malformed                                 *)

\* a pattern waiver whose severity_filter names no severity: it fails to
\* parse
I_pattern_fatal ==
    [NoItem EXCEPT !.pattern = Some(S_Pas), !.severity_filter = Some(<<"fatal">>)]

\* a rule waiver for the rule of its policy file, without any criterion
I_rule == NoItem

\* a rule waiver that has been switched off
I_rule_off == [NoItem EXCEPT !.active = Some(FALSE)]

\* a rule waiver that names another rule
I_rule_imports == [NoItem EXCEPT !.rule = Some("imports")]

\* a line waiver for g/a.py line 11 that names another rule
I_line_imports ==
    [NoItem EXCEPT !.file_pattern = Some(S_g_a_py), !.line_number = Some(11),
                   !.pattern = Some(S_Pas), !.rules = Some(<<"imports">>)]

\* a file that open() or yaml.safe_load rejects
P_unreadable == [P_line_bulk EXCEPT !.loads = FALSE]

\* a file whose first pattern waiver fails to parse
P_fatal == [NoData EXCEPT !.pattern_waivers = << I_pattern_fatal, I_pattern >>]

\* a rule waiver next to waivers of the other sections
P_rule_all ==
    [NoData EXCEPT !.rule_waivers = << I_rule >>, !.file_waivers = << I_file >>,
                   !.line_waivers = << I_line >>]

P_rule_off ==
    [NoData EXCEPT !.rule_waivers = << I_rule_off >>,
                   !.pattern_waivers = << I_pattern >>]

P_named ==
    [NoData EXCEPT !.rule_waivers = << I_rule_imports >>,
                   !.line_waivers = << I_line_imports >>]

P_file == [NoData EXCEPT !.file_waivers = << I_file >>]

ManagerNamingDirs ==
    { RuleDir("naming", TRUE, TRUE, "ok", FALSE, Some(data)) :
        data \in {P_unreadable, P_fatal, P_rule_all, P_rule_off, P_named} }

ManagerImportsDirs ==
    { RuleDir("imports", TRUE, TRUE, "ok", FALSE, waiver_file) :
        waiver_file \in {None, Some(P_unreadable), Some(P_file),
                         Some(P_file_vline)} }

\* the listings iterdir() may give, in any order
ManagerRulesDirs ==
    { << n, i >> : n \in ManagerNamingDirs, i \in ManagerImportsDirs }
    \cup { << i, n >> : n \in ManagerNamingDirs, i \in ManagerImportsDirs }

\* the state after WaiverManager(rules_directory)
InitManager ==
    /\ rules_dir \in ManagerRulesDirs
    /\ today = ExpiryDay
    /\ waivers = load_all_rule_waivers(rules_dir)
    /\ statistics = update_statistics(waivers, today)
    /\ now = 0
    /\ config = NoConfig
    /\ available_rules = << >>
    /\ enabled_rules = << >>
    /\ call = NoCall
    /\ waivedTotal = 0
    /\ pc = "idle"
    /\ queue = << >>
    /\ results = << >>
    /\ fixMode = FALSE
    /\ report = None
    /\ fix_call = NoFixCall
    /\ created = NoInstance
    /\ mv = NoViolation
    /\ mp = << >>
    /\ mresult = None

NextManager ==
    \/ \E violations \in ListsUpTo(ApplyViolations, MaxViolations) :
           \/ ApplyWaivers(violations, S_a_py)
           \/ ApplyWaivers(violations, S_g_a_py)
    \/ Tick

SpecManager == InitManager /\ [][NextManager]_vars

-----------------------------------------------------------------------------
(* The same manager asked for its statistics, and for new waivers           *)

StatisticsRulesDirs ==
    { << RuleDir("naming", TRUE, TRUE, "ok", FALSE, Some(data)),
         RuleDir("imports", TRUE, TRUE, "ok", FALSE, waiver_file) >> :
        data \in {P_fatal, P_rule_off, P_named},
        waiver_file \in {None, Some(P_file)} }

InitStatistics ==
    /\ rules_dir \in StatisticsRulesDirs
    /\ today = ExpiryDay
    /\ waivers = load_all_rule_waivers(rules_dir)
    /\ statistics = update_statistics(waivers, today)
    /\ now = 0
    /\ config = NoConfig
    /\ available_rules = << >>
    /\ enabled_rules = << >>
    /\ call = NoCall
    /\ waivedTotal = 0
    /\ pc = "idle"
    /\ queue = << >>
    /\ results = << >>
    /\ fixMode = FALSE
    /\ report = None
    /\ fix_call = NoFixCall
    /\ created = NoInstance
    /\ mv = NoViolation
    /\ mp = << >>
    /\ mresult = None

NextStatistics ==
    \/ \E violation \in ApplyViolations :
           ApplyWaivers(<< violation >>, violation.file_path)
    \/ \E violation \in ApplyViolations, expires_days \in {0, 1} :
           CreateWaiverFromViolation(violation, violation.file_path,
                                     expires_days)
    \/ GetWaiverStatistics
    \/ Tick

SpecStatistics == InitStatistics /\ [][NextStatistics]_vars

-----------------------------------------------------------------------------
(* What the claims speak of *)

Elems(l) == {l[i] : i \in DOMAIN l}

Declared(o) == o # None /\ o[1] # << >>

\* `expires` is a date in the past
ExpiresInPast(w, day) == w.expires # None /\ w.expires[1] < day

InForce(w, day) == w.active /\ ~ExpiresInPast(w, day)

RuleFilterPasses(w, v) == w.rule_names = << >> \/ v.rule_name \in Elems(w.rule_names)

SeverityFilterPasses(w, v) ==
    w.severity_filter = << >> \/ v.severity \in Elems(w.severity_filter)

RECURSIVE SumUsage(_)
SumUsage(ws) ==
    IF ws = << >> THEN 0 ELSE Head(ws).usage_count + SumUsage(Tail(ws))

\* waiver j of the list ws is the first one, in list order, that matches v
FirstMatch(ws, j, v, file_path, day) ==
    /\ matches_violation(ws[j], v, file_path, day)
    /\ \A k \in 1..(j - 1) : ~matches_violation(ws[k], v, file_path, day)

\* positions of call.violations whose first matching waiver is j
FirstMatchedBy(j) ==
    {i \in DOMAIN call.violations :
        FirstMatch(call.before, j, call.violations[i], call.file_path, call.day)}

\* C1: apply_waivers returns a partition of its input: every input violation
\* is in exactly one of (remaining, waived), neither list holds anything
\* else, and the two lengths add up to the input's length.
C1_Partition ==
    call.made =>
        /\ \A x \in Elems(call.violations) :
               (x \in Elems(call.remaining)) # (x \in Elems(call.waived))
        /\ Elems(call.remaining) \subseteq Elems(call.violations)
        /\ Elems(call.waived) \subseteq Elems(call.violations)
        /\ Len(call.remaining) + Len(call.waived) = Len(call.violations)

\* a call that waived some of its violations and left others
C1_Witness ==
    /\ call.made
    /\ call.remaining # << >>
    /\ call.waived # << >>

\* C2: a waiver that is inactive, or whose expires date is in the past,
\* matches no violation whatever its type and criteria, and apply_waivers
\* neither waives through it nor counts a use of it.
C2_InactiveOrExpiredNeverMatches ==
    LET w == waivers[1]
    IN  (mresult # None /\ (~w.active \/ ExpiresInPast(w, today))) =>
            /\ mresult = Some(FALSE)
            /\ call.made =>
                   /\ call.waived = << >>
                   /\ call.remaining = call.violations
                   /\ w.usage_count = 0
                   /\ w.last_used = None

\* an active waiver, expired, that would match were it not for its date,
\* has been asked and applied
C2_Witness ==
    /\ mresult # None
    /\ call.made
    /\ waivers[1].active
    /\ ExpiresInPast(waivers[1], today)
    /\ matches_violation([waivers[1] EXCEPT !.expires = None], mv, mp, today)

\* C3: first match wins: a call increments a waiver's usage_count once for
\* each violation whose first matching waiver (in list order) it is, and
\* leaves usage_count and last_used of a waiver alone when it is the first
\* match of none, also when it matches violations that an earlier waiver
\* matched.
C3_FirstMatchWins ==
    call.made =>
        \A j \in DOMAIN waivers :
            /\ waivers[j].usage_count =
                   call.before[j].usage_count + Cardinality(FirstMatchedBy(j))
            /\ FirstMatchedBy(j) = {} =>
                   waivers[j].last_used = call.before[j].last_used

\* a violation two waivers matched: the first was counted, the second not
C3_Witness ==
    /\ call.made
    /\ \E i \in DOMAIN call.violations : \E j, k \in DOMAIN waivers :
           /\ j < k
           /\ FirstMatch(call.before, j, call.violations[i], call.file_path,
                         call.day)
           /\ matches_violation(call.before[k], call.violations[i],
                                call.file_path, call.day)
           /\ waivers[j].usage_count = call.before[j].usage_count + 1
           /\ waivers[k].usage_count = call.before[k].usage_count
           /\ waivers[k].last_used = call.before[k].last_used

\* C4: over any sequence of apply_waivers calls the usage counts of all
\* waivers together grow by one per waived violation and by nothing per
\* remaining violation, so their sum is the number of violations waived.
C4_UsageCountsWaived ==
    /\ SumUsage(waivers) = waivedTotal
    /\ call.made =>
           /\ SumUsage(waivers) = SumUsage(call.before) + Len(call.waived)
           /\ \A j \in DOMAIN waivers :
                  waivers[j].usage_count >= call.before[j].usage_count
           /\ call.waived = << >> => waivers = call.before

\* Scenario C in small: after MaxCalls calls with every violation each, one
\* bulk waiver has waived and counted them all
C4_Witness ==
    /\ now = MaxCalls
    /\ Len(waivers) = 1
    /\ waivers[1].type = "bulk"
    /\ waivedTotal = MaxCalls * Cardinality(ApplyViolations)
    /\ waivers[1].usage_count = MaxCalls * Cardinality(ApplyViolations)

\* the rule names of the CheckResults collected so far
ResultNames == [i \in DOMAIN results |-> results[i].rule_name]

\* C5: in run_all_rules a rule whose construction or check raises yields a
\* CheckResult with success = false and a populated error_message, the run
\* is not aborted by it, and run_all_rules returns exactly one CheckResult
\* per enabled rule.
C5_FailingRuleIsIsolated ==
    /\ \A i \in DOMAIN results :
           ~results[i].success => results[i].error_message # << >>
    /\ (results # << >> /\ ~results[Len(results)].success) => pc # "raised"
    /\ pc = "returned" => ResultNames = sorted(enabled_rules)

\* C6: in a run every violation is matched against the waivers with the path
\* of its own file: it is waived exactly when some waiver matches it under
\* that path.
C6_MatchedByOwnPath ==
    (call.made /\ pc # "idle") =>
        \A i \in DOMAIN call.violations :
            LET v == call.violations[i]
            IN  InList(v, call.waived) <=>
                    \E j \in DOMAIN call.before :
                        matches_violation(call.before[j], v, v.file_path,
                                          call.day)

\* the criteria of a line_specific waiver, code compared after str.strip()
LineCriteria(w, v, file_path) ==
    /\ Declared(w.file_pattern) => fnmatch(file_path, w.file_pattern[1])
    /\ w.line_number # None => v.line_number = w.line_number[1]
    /\ w.column # None => v.column = w.column[1]
    /\ Declared(w.code_content) =>
           Strip(v.code_snippet) = Strip(w.code_content[1])
    /\ IF Declared(w.message_pattern)
       THEN re_search(w.message_pattern[1], v.message)
       ELSE w.pattern # << >> => Contains(w.pattern, v.message)

\* the same with the code snippet compared as it is
LineCriteriaExact(w, v, file_path) ==
    /\ Declared(w.file_pattern) => fnmatch(file_path, w.file_pattern[1])
    /\ w.line_number # None => v.line_number = w.line_number[1]
    /\ w.column # None => v.column = w.column[1]
    /\ Declared(w.code_content) => v.code_snippet = w.code_content[1]
    /\ IF Declared(w.message_pattern)
       THEN re_search(w.message_pattern[1], v.message)
       ELSE w.pattern # << >> => Contains(w.pattern, v.message)

LineWaiverAsked ==
    /\ mresult # None
    /\ waivers[1].type = "line_specific"
    /\ InForce(waivers[1], today)
    /\ RuleFilterPasses(waivers[1], mv)
    /\ SeverityFilterPasses(waivers[1], mv)

\* C7 (as amended): a line_specific waiver in force whose rule-name and
\* severity filters pass matches exactly when every declared sub-criterion
\* holds, where the code snippet and code_content are compared after
\* stripping leading and trailing whitespace from both; an undeclared
\* sub-criterion rejects nothing, and a match applied counts one use.
C7_LineSpecificCriteria ==
    LineWaiverAsked =>
        /\ mresult = Some(LineCriteria(waivers[1], mv, mp))
        /\ call.made =>
               waivers[1].usage_count = IF mresult[1] THEN 1 ELSE 0

\* C7 as stated: the code snippet equals code_content
C7_Original ==
    LineWaiverAsked => mresult = Some(LineCriteriaExact(waivers[1], mv, mp))

\* a line waiver declaring all five sub-criteria matched and was counted
C7_Witness ==
    /\ LineWaiverAsked
    /\ Declared(waivers[1].file_pattern)
    /\ waivers[1].line_number # None
    /\ waivers[1].column # None
    /\ Declared(waivers[1].code_content)
    /\ Declared(waivers[1].message_pattern)
    /\ mresult = Some(TRUE)
    /\ call.made
    /\ waivers[1].usage_count = 1

BulkWaiverAsked ==
    /\ mresult # None
    /\ waivers[1].type = "bulk"
    /\ InForce(waivers[1], today)

BulkCriteria(w, v, file_path) ==
    /\ Declared(w.file_pattern)
    /\ fnmatch(file_path, w.file_pattern[1])
    /\ w.rule_names = << >> \/ v.rule_name \in Elems(w.rule_names)

\* C8 (as amended): a bulk waiver in force matches exactly when its severity
\* filter passes, file_path matches its file_pattern and it declares no
\* rule-name list or the violation's rule is in it; a bulk waiver with
\* file_pattern g/*.py and no rule-name list or severity filter waives every
\* violation applied with a path that matches g/*.py.
C8_BulkCriteria ==
    BulkWaiverAsked =>
        /\ mresult = Some(SeverityFilterPasses(waivers[1], mv)
                          /\ BulkCriteria(waivers[1], mv, mp))
        /\ (/\ waivers[1].file_pattern = Some(S_g_glob)
            /\ waivers[1].rule_names = << >>
            /\ waivers[1].severity_filter = << >>
            /\ mp = S_g_a_py) =>
               /\ mresult = Some(TRUE)
               /\ call.made => (call.waived = << mv >>
                                /\ waivers[1].usage_count = 1)

\* C8 as stated: the file pattern and the rule-name list alone decide
C8_Original ==
    BulkWaiverAsked => mresult = Some(BulkCriteria(waivers[1], mv, mp))

\* a bulk waiver with a severity filter and a rule-name list waived a
\* violation
C8_Witness ==
    /\ BulkWaiverAsked
    /\ waivers[1].severity_filter # << >>
    /\ waivers[1].rule_names # << >>
    /\ mresult = Some(TRUE)
    /\ call.made
    /\ call.waived = << mv >>

\* the policy files load_all_rule_waivers reads
PolicyFiles ==
    { << rules_dir[i].name, rules_dir[i].waiver_file[1] >> :
        i \in { k \in DOMAIN rules_dir :
                   /\ rules_dir[k].is_dir
                   /\ rules_dir[k].name # "__pycache__"
                   /\ rules_dir[k].waiver_file # None } }

\* the list holds a waiver of this type for this rule and file glob
Loaded(type, rule_name, file_pattern) ==
    \E j \in DOMAIN waivers :
        /\ waivers[j].type = type
        /\ InList(rule_name, waivers[j].rule_names)
        /\ waivers[j].file_pattern = file_pattern

\* C9: every entry under bulk_waivers in a rule's policy file is in the
\* waiver list of the constructed WaiverManager as a waiver of type bulk,
\* as the entries under line_waivers, pattern_waivers and rule_waivers are
\* as waivers of their types.
C9_BulkEntriesLoaded ==
    \A f \in PolicyFiles :
        /\ \A k \in DOMAIN f[2].bulk_waivers :
               Loaded("bulk", f[1], f[2].bulk_waivers[k].pattern)
        /\ \A k \in DOMAIN f[2].pattern_waivers :
               Loaded("pattern_based", f[1],
                      f[2].pattern_waivers[k].file_pattern)
        /\ \A k \in DOMAIN f[2].rule_waivers :
               Loaded("rule_based", f[1], f[2].rule_waivers[k].scope)
        /\ \A k \in DOMAIN f[2].line_waivers :
               \E j \in DOMAIN waivers :
                   /\ waivers[j].type = "line_specific"
                   /\ InList(f[1], waivers[j].rule_names)

PatternWaiverAsked ==
    /\ mresult # None
    /\ waivers[1].type \in {"pattern_based", "temporary"}
    /\ InForce(waivers[1], today)
    /\ RuleFilterPasses(waivers[1], mv)
    /\ SeverityFilterPasses(waivers[1], mv)

PatternCriteria(w, v, file_path) ==
    /\ Declared(w.file_pattern) => fnmatch(file_path, w.file_pattern[1])
    /\ \/ /\ w.pattern # << >>
          /\ Contains(w.pattern, v.message) \/ Contains(w.pattern, v.code_snippet)
       \/ /\ Declared(w.message_pattern)
          /\ re_search(w.message_pattern[1], v.message)

\* C10: a pattern_based or temporary waiver in force whose rule-name and
\* severity filters pass matches exactly when file_path matches file_pattern
\* (if declared) and the declared pattern is a substring of the message or
\* of the code snippet, or the message matches the declared message_pattern;
\* a temporary waiver answers as the pattern_based waiver with its fields.
C10_PatternCriteria ==
    PatternWaiverAsked =>
        /\ mresult = Some(PatternCriteria(waivers[1], mv, mp))
        /\ mresult = Some(matches_violation(
                              [waivers[1] EXCEPT !.type = "pattern_based"],
                              mv, mp, today))

\* a temporary waiver matched through the code snippet alone
C10_Witness ==
    /\ PatternWaiverAsked
    /\ waivers[1].type = "temporary"
    /\ waivers[1].pattern # << >>
    /\ ~Contains(waivers[1].pattern, mv.message)
    /\ Contains(waivers[1].pattern, mv.code_snippet)
    /\ ~Declared(waivers[1].message_pattern)
    /\ mresult = Some(TRUE)

RuleWaiverAsked ==
    /\ mresult # None
    /\ waivers[1].type = "rule_based"
    /\ InForce(waivers[1], today)

\* the criteria of a rule_based waiver: the violation's rule is in the
\* waiver's list, and the path matches the file glob if one is declared
RuleCriteria(w, v, file_path) ==
    /\ v.rule_name \in Elems(w.rule_names)
    /\ Declared(w.file_pattern) => fnmatch(file_path, w.file_pattern[1])

\* C11 (as amended): a rule_based waiver in force matches exactly when its
\* severity filter passes, the violation's rule is in its rule-name list (a
\* waiver with an empty list matches nothing) and file_path matches its
\* file_pattern if one is declared; with no file_pattern and no severity
\* filter it matches every violation of the rules in its list.
C11_RuleCriteria ==
    RuleWaiverAsked =>
        /\ mresult = Some(SeverityFilterPasses(waivers[1], mv)
                          /\ RuleCriteria(waivers[1], mv, mp))
        /\ (/\ ~Declared(waivers[1].file_pattern)
            /\ waivers[1].severity_filter = << >>
            /\ mv.rule_name \in Elems(waivers[1].rule_names)) =>
               /\ mresult = Some(TRUE)
               /\ call.made => (call.waived = << mv >>
                                /\ waivers[1].usage_count = 1)

\* C11 as stated: the rule-name check of step 2 (list empty, or the rule in
\* it) and the file glob alone decide
C11_Original ==
    RuleWaiverAsked =>
        mresult = Some(/\ RuleFilterPasses(waivers[1], mv)
                       /\ Declared(waivers[1].file_pattern) =>
                              fnmatch(mp, waivers[1].file_pattern[1]))

\* a rule waiver with a rule list and a file glob waived a violation
C11_Witness ==
    /\ RuleWaiverAsked
    /\ waivers[1].rule_names # << >>
    /\ Declared(waivers[1].file_pattern)
    /\ mresult = Some(TRUE)
    /\ call.made
    /\ call.waived = << mv >>

\* C12: whenever matches_violation answers true, whatever the waiver's type,
\* the waiver's rule_names is empty or holds the violation's rule and its
\* severity_filter is empty or holds the violation's severity; a violation
\* outside a declared rule-name list or severity filter is never waived.
C12_FiltersAlwaysHold ==
    /\ mresult = Some(TRUE) =>
           /\ RuleFilterPasses(waivers[1], mv)
           /\ SeverityFilterPasses(waivers[1], mv)
    /\ (call.made /\ call.waived # << >>) =>
           /\ RuleFilterPasses(call.before[1], mv)
           /\ SeverityFilterPasses(call.before[1], mv)

\* a waiver declaring a rule-name list and a severity filter matched a
\* violation of a listed rule and severity, and waived it
C12_Witness ==
    /\ mresult = Some(TRUE)
    /\ waivers[1].rule_names # << >>
    /\ waivers[1].severity_filter # << >>
    /\ call.made
    /\ call.waived = << mv >>

\* C13: apply_waivers only suppresses: every violation it returns in
\* remaining or waived is one of its input violations, field for field, none
\* is created; the list of waivers keeps its length and order and each waiver
\* keeps every field but usage_count and last_used, which change only on a
\* waiver that matched an input violation; the policy files and the rest of
\* the checker's state are left alone.
C13_OnlySuppresses ==
    [][(now' # now) =>
          /\ call'.made
          /\ call'.before = waivers
          /\ Elems(call'.remaining) \cup Elems(call'.waived)
                 \subseteq Elems(call'.violations)
          /\ Len(call'.remaining) + Len(call'.waived) = Len(call'.violations)
          /\ Len(waivers') = Len(waivers)
          /\ \A j \in DOMAIN waivers :
                 /\ waivers'[j] =
                        [waivers[j] EXCEPT
                            !.usage_count = waivers'[j].usage_count,
                            !.last_used = waivers'[j].last_used]
                 /\ waivers'[j] # waivers[j] =>
                        \E v \in Elems(call'.violations) :
                            matches_violation(waivers[j], v, call'.file_path,
                                              today)
          /\ UNCHANGED << today, checkerVars, matchVars >>]_vars

\* a call that waived one violation and left another, through the second of
\* two waivers, the first of which it did not touch
C13_Witness ==
    /\ call.made
    /\ Len(call.waived) = 1
    /\ Len(call.remaining) = 1
    /\ Len(waivers) = 2
    /\ waivers[1] = call.before[1]
    /\ waivers[2].usage_count = call.before[2].usage_count + 1
    /\ waivers[2].last_used = Some(now)

\* a rule subdirectory that conforms: it holds its rule script, the module
\* loads and a BaseRule subclass in it can be instantiated
Conforming(rule_dir) ==
    /\ rule_dir.is_dir
    /\ rule_dir.name # "__pycache__"
    /\ rule_dir.script
    /\ rule_dir.module = "ok"

\* C14: _discover_rules returns a registry whatever the subdirectories are:
\* a subdirectory without rule script, without BaseRule subclass, or whose
\* module load or instantiation raises is left out, and every conforming
\* subdirectory is registered under its name; one conforming rule and one
\* empty directory give a registry of size 1.
C14_DiscoveryIsolatesFailures ==
    /\ \A i \in DOMAIN rules_dir :
           Conforming(rules_dir[i]) <=>
               InList(rules_dir[i].name, rule_keys(available_rules))
    /\ Len(available_rules) =
           Cardinality({i \in DOMAIN rules_dir : Conforming(rules_dir[i])})
    /\ (\E i, j \in DOMAIN rules_dir :
            /\ Conforming(rules_dir[i])
            /\ ~rules_dir[j].script
            /\ \A k \in DOMAIN rules_dir \ {i, j} : ~rules_dir[k].is_dir
                                                    \/ ~rules_dir[k].script)
           => Len(available_rules) = 1

\* the module of the first subdirectory raised on load, the second
\* subdirectory conforms and is the one registered rule
C14_Witness ==
    /\ Len(rules_dir) = 2
    /\ rules_dir[1].script
    /\ rules_dir[1].module = "raises"
    /\ Conforming(rules_dir[2])
    /\ rule_keys(available_rules) = << rules_dir[2].name >>

\* C15: _get_enabled_rules returns exactly the discovered rules that are in
\* the allow-list (all discovered rules when no allow-list is given) and not
\* in the deny-list: a denied rule is never enabled, also when it is allowed,
\* and a name that was not discovered is never enabled.
C15_EnabledRules ==
    LET discovered == Elems(rule_keys(available_rules))
        allowed == IF config.enabled_rules = << >>
                   THEN discovered
                   ELSE Elems(config.enabled_rules)
    IN  /\ Elems(enabled_rules) =
               (discovered \cap allowed) \ Elems(config.disabled_rules)
        /\ Elems(enabled_rules) \cap Elems(config.disabled_rules) = {}
        /\ Elems(enabled_rules) \subseteq discovered
        /\ \A i \in DOMAIN results : results[i].rule_name \in discovered
        /\ pc \in {"running", "returned", "raised"} =>
               \A i \in DOMAIN results :
                   results[i].rule_name \notin Elems(config.disabled_rules)

\* a discovered rule named in both lists was left out and the run returned
\* with the result of the other rule only
C15_Witness ==
    /\ \E name \in Elems(config.enabled_rules) \cap Elems(config.disabled_rules) :
           /\ InList(name, rule_keys(available_rules))
           /\ ~InList(name, enabled_rules)
    /\ enabled_rules # << >>
    /\ pc = "returned"
    /\ Len(results) = 1

\* a step of the loop of run_all_rules: run_rule returned and its result was
\* appended
RunRuleStep == Len(results') = Len(results) + 1

\* some waiver of ws matches v as run_rule has apply_waivers ask
MatchedInRun(ws, v, day) ==
    \E j \in DOMAIN ws : matches_violation(ws[j], v, S_root, day)

\* the ids of the violations a result's FixResult reports fixed
FixedIds(result) ==
    IF result.fix_result = None THEN {}
    ELSE {v.id : v \in Elems(result.fix_result[1])}

\* what the waiver step of run_rule leaves in a successful result, and in
\* the lists apply_waivers returned, for the violations check returned
WaiverStepOf(result) ==
    /\ result.waiver_count = Len(result.waived_violations)
    /\ IF now' # now
       THEN /\ result.waived_violations =
                   SelectSeq(call'.violations,
                             LAMBDA v : MatchedInRun(waivers, v, today))
            /\ call'.remaining =
                   SelectSeq(call'.violations,
                             LAMBDA v : ~MatchedInRun(waivers, v, today))
            /\ Elems(call'.remaining) \cup Elems(result.waived_violations)
                   = Elems(call'.violations)
            /\ Len(call'.remaining) + Len(result.waived_violations)
                   = Len(call'.violations)
       ELSE /\ result.waived_violations = << >>
            /\ result.violations = << >>

\* C16 (as amended): after run_rule returns a successful result,
\* result.waived_violations holds exactly the violations check returned that
\* a waiver matched and result.waiver_count is its length; the violations no
\* waiver matched are, with the waived ones, exactly what check returned, and
\* result.violations holds exactly those of them that fix did not report
\* fixed: all of them when fix was not called, raised or fixed nothing.
C16_ResultLists ==
    [][(RunRuleStep /\ results'[Len(results')].success) =>
          LET result == results'[Len(results')]
          IN  /\ WaiverStepOf(result)
              /\ (now' # now) =>
                     /\ result.violations =
                            SelectSeq(call'.remaining,
                                      LAMBDA v : v.id \notin FixedIds(result))
                     /\ FixedIds(result) = {} =>
                            result.violations = call'.remaining]_vars

\* C16 as stated: result.violations of a successful result holds exactly the
\* violations check returned that no waiver matched.
C16_Original ==
    [][(RunRuleStep /\ results'[Len(results')].success) =>
          LET result == results'[Len(results')]
          IN  /\ WaiverStepOf(result)
              /\ (now' # now) =>
                     result.violations =
                         SelectSeq(call'.violations,
                                   LAMBDA v : ~MatchedInRun(waivers, v, today))]_vars

\* a successful result of a rule whose check returned two violations: a
\* waiver matched one, fix fixed the other
C16_Witness ==
    /\ results # << >>
    /\ call.made
    /\ LET result == results[Len(results)]
       IN  /\ result.success
           /\ Len(call.violations) = 2
           /\ result.waived_violations = call.waived
           /\ result.waiver_count = 1
           /\ Len(call.remaining) = 1
           /\ result.fix_result = Some(call.remaining)
           /\ result.violations = << >>

\* no violation left in the result has severity error or critical
NoErrorLeft(result) ==
    \A v \in Elems(result.violations) : v.severity \notin {"error", "critical"}

\* C17: a CheckResult passes if and only if success is true and none of its
\* remaining violations, which are neither waived nor fixed, has severity
\* error or critical: a rule whose error and critical violations were all
\* waived passes, a result with success = false never passes, and the summary
\* of the report counts every result that does not pass, those with
\* success = false among them, as a failed rule.
C17_Passed ==
    /\ \A i \in DOMAIN results :
           LET result == results[i]
           IN  /\ passed(result) <=> (result.success /\ NoErrorLeft(result))
               /\ ~result.success => ~passed(result)
               /\ \A v \in Elems(result.violations) :
                      /\ v \notin Elems(result.waived_violations)
                      /\ v.id \notin FixedIds(result)
    /\ report # None =>
           LET summary == report[1].summary
               not_passed == {i \in DOMAIN results :
                                ~(results[i].success /\ NoErrorLeft(results[i]))}
               unsuccessful == {i \in DOMAIN results : ~results[i].success}
           IN  /\ report[1].results = results
               /\ summary.total_rules = Len(results)
               /\ summary.failed_rules = Cardinality(not_passed)
               /\ summary.passed_rules = Len(results) - Cardinality(not_passed)
               /\ summary.failed_rules >= Cardinality(unsuccessful)

\* the report of a run of two rules: one passed because its only error
\* was waived, the other has success = false and nothing but a warning and
\* is the one failed rule of the summary
C17_Witness ==
    /\ report # None
    /\ Len(results) = 2
    /\ \E i, j \in DOMAIN results :
           /\ results[i].success
           /\ passed(results[i])
           /\ \E v \in Elems(results[i].waived_violations) : v.severity = "error"
           /\ ~results[j].success
           /\ results[j].violations # << >>
           /\ NoErrorLeft(results[j])
           /\ ~passed(results[j])
    /\ report[1].summary.passed_rules = 1
    /\ report[1].summary.failed_rules = 1

\* the step called rule.fix
FixStep == RunRuleStep /\ fix_call' # fix_call

\* C18: when fix is requested and the rule has a fix method, run_rule calls
\* fix with the remaining violations, those no waiver matched, and with no
\* waived one; when fix returns, result.violations is the remaining
\* violations less exactly those whose id is among the fixed violations fix
\* reported, every other remaining violation staying in place.
C18_FixGetsRemaining ==
    [][RunRuleStep =>
          LET result == results'[Len(results')]
              asked == /\ fixMode'
                       /\ RuleNamed(result.rule_name).has_fix
                       /\ now' # now
                       /\ call'.remaining # << >>
          IN  /\ asked <=> FixStep
              /\ FixStep =>
                     /\ fix_call'.made
                     /\ fix_call'.rule_name = result.rule_name
                     /\ fix_call'.violations = call'.remaining
                     /\ Elems(fix_call'.violations) \cap Elems(call'.waived) = {}
                     /\ ~fix_call'.raises =>
                            /\ result.violations =
                                   SelectSeq(call'.remaining,
                                       LAMBDA v : v.id \notin fix_call'.fixed)
                            /\ result.fix_result =
                                   Some(SelectSeq(call'.remaining,
                                       LAMBDA v : v.id \in fix_call'.fixed))]_vars

\* fix was called with the two violations no waiver matched, reported one
\* fixed, and the other stayed
C18_Witness ==
    /\ fix_call.made
    /\ ~fix_call.raises
    /\ results # << >>
    /\ results[Len(results)].rule_name = fix_call.rule_name
    /\ Len(fix_call.violations) = 2
    /\ \E i \in 1..2 :
           /\ fix_call.fixed = {fix_call.violations[i].id}
           /\ results[Len(results)].violations = << fix_call.violations[3 - i] >>

\* C19: when a rule's fix call raises, run_rule returns a result all the
\* same and the run goes on: the result has the success value the check
\* gave, result.violations is the remaining violations apply_waivers
\* returned, none removed, and run_all_rules is not left by an exception.
C19_FixFailureNotFatal ==
    (fix_call.made /\ fix_call.raises) =>
        /\ results # << >>
        /\ LET result == results[Len(results)]
           IN  /\ result.rule_name = fix_call.rule_name
               /\ result.success = fix_call.success
               /\ result.violations = fix_call.violations
               /\ result.violations = call.remaining
        /\ pc # "raised"

\* sum of waiver_count over a list of results
RECURSIVE SumWaiverCount(_)
SumWaiverCount(rs) ==
    IF rs = << >> THEN 0 ELSE Head(rs).waiver_count + SumWaiverCount(Tail(rs))

\* C20: usage counters are updated by one apply_waivers execution at a time:
\* the waiver list changes only in a step that is one whole run_rule with one
\* apply_waivers call, which starts from the counters the previous one left;
\* in that step each waiver's usage_count grows by the number of violations
\* of the result it waived, so that no increment is lost and the counters
\* have grown, in all, by the number of violations waived across all results.
C20_CountersUpdatedInTurn ==
    [][/\ (waivers' # waivers) =>
              /\ RunRuleStep
              /\ now' = now + 1
              /\ call'.before = waivers
       /\ RunRuleStep =>
              LET result == results'[Len(results')]
                  waived_by(j) ==
                      {i \in DOMAIN result.waived_violations :
                          FirstMatch(waivers, j, result.waived_violations[i],
                                     S_root, today)}
              IN  /\ Len(waivers') = Len(waivers)
                  /\ \A j \in DOMAIN waivers :
                         waivers'[j].usage_count =
                             waivers[j].usage_count + Cardinality(waived_by(j))
       /\ SumUsage(waivers') = SumWaiverCount(results')
       /\ SumUsage(waivers') = waivedTotal']_vars

\* a run of two rules, each with a violation waived by a waiver of its own
\* policy file: both waivers count one use
C20_Witness ==
    /\ Len(results) = 2
    /\ results[1].waiver_count = 1
    /\ results[2].waiver_count = 1
    /\ \E j, k \in DOMAIN waivers :
           /\ j # k
           /\ waivers[j].usage_count = 1
           /\ waivers[k].usage_count = 1
    /\ SumUsage(waivers) = 2

\* the config file of the rule could be loaded
FileLoaded == created.config_file # None /\ ~created.config_file[1].raises

\* C21: the configuration handed to a rule instance is the layering
\* default-schema < rule-specific file config < global per-rule override:
\* for every key the global override wins over the rule's config file, which
\* wins over the default of the rule's schema, and a key present only in the
\* declared defaults is present in the resolved configuration.
C21_LayeredConfig ==
    created.made =>
        \A k \in ConfigKeys :
            created.config[k] =
                IF created.global_rule_config[k] # None
                THEN created.global_rule_config[k]
                ELSE IF FileLoaded /\ created.config_file[1].parameters[k] # None
                THEN created.config_file[1].parameters[k]
                ELSE created.schema_defaults[k]

\* what holds of the configuration handed over: the global override over the
\* file's parameters, and nothing else
C21_FileThenGlobal ==
    created.made =>
        \A k \in ConfigKeys :
            created.config[k] =
                IF created.global_rule_config[k] # None
                THEN created.global_rule_config[k]
                ELSE IF FileLoaded
                THEN created.config_file[1].parameters[k]
                ELSE None

-----------------------------------------------------------------------------
(* Loading policy files *)

\* the sections _load_rule_waiver_file reads
LoadedSections ==
    {"rule_waivers", "file_waivers", "line_waivers", "pattern_waivers"}

HasPolicy(rule_dir) ==
    rule_dir.is_dir /\ rule_dir.name # "__pycache__" /\ rule_dir.waiver_file # None

\* the entry parses: it is a mapping whose values have the types the
\* parser of its section converts
WellFormed(section, item) ==
    section = "pattern_waivers" =>
        \A s \in Elems(Get(item, "severity_filter", << >>)) : s \in Severities

\* the policy file cannot be loaded, or holds an entry that does not parse
Malformed(rule_dir) ==
    /\ HasPolicy(rule_dir)
    /\ \/ ~rule_dir.waiver_file[1].loads
       \/ \E section \in LoadedSections :
              \E item \in Elems(rule_dir.waiver_file[1][section]) :
                  ~WellFormed(section, item)

\* the well-formed entries of the sections of a policy file that loads
GoodEntries(rule_dir) ==
    IF HasPolicy(rule_dir) /\ rule_dir.waiver_file[1].loads
    THEN { << section, k >> \in LoadedSections \X (1..4) :
             /\ k \in DOMAIN rule_dir.waiver_file[1][section]
             /\ WellFormed(section, rule_dir.waiver_file[1][section][k]) }
    ELSE {}

\* waiver w, usage apart, is what the entry gives when it is parsed as the
\* n-th waiver of the list
LoadedAs(w, rule_dir, e, n) ==
    Some([w EXCEPT !.usage_count = 0, !.last_used = None])
        = parse_item(e[1], rule_dir.waiver_file[1][e[1]][e[2]], rule_dir.name, n)

\* C22: when a rule's policy file is malformed (it cannot be read, is no
\* YAML, or holds an entry that does not parse), the manager is constructed
\* all the same, no waiver comes from the bad file or entry, and every
\* well-formed waiver of every other rule's policy file is in the list
C22_MalformedFileIsolated ==
    \A m \in DOMAIN rules_dir :
        Malformed(rules_dir[m]) =>
            /\ Len(waivers) =
                   Cardinality({ << j, e >> \in (DOMAIN rules_dir) \X (LoadedSections \X (1..4)) :
                                   e \in GoodEntries(rules_dir[j]) })
            /\ \A j \in DOMAIN rules_dir \ {m} :
                   \A e \in GoodEntries(rules_dir[j]) :
                       \E i \in DOMAIN waivers :
                           LoadedAs(waivers[i], rules_dir[j], e, i - 1)

\* a file that cannot be loaded is listed before the file of another rule,
\* whose waiver is loaded and has waived a violation
C22_Witness ==
    /\ Len(rules_dir) = 2
    /\ HasPolicy(rules_dir[1]) /\ ~rules_dir[1].waiver_file[1].loads
    /\ GoodEntries(rules_dir[2]) # {}
    /\ \E i \in DOMAIN waivers : waivers[i].usage_count > 0

-----------------------------------------------------------------------------
(* The names of rules *)

\* C23: the rule registry is indexed by RuleMetadata.name: every discovered
\* rule is listed, and enabled or disabled, under the name its metadata
\* declares, and the registry holds one entry for each declared name
C23_IndexedByMetadataName ==
    /\ \A i \in DOMAIN available_rules :
           rule_keys(available_rules)[i] = available_rules[i].metadata_name
    /\ \A i, j \in DOMAIN available_rules :
           available_rules[i].metadata_name = available_rules[j].metadata_name
               => i = j
    /\ \A i \in DOMAIN enabled_rules :
           \E j \in DOMAIN available_rules :
               enabled_rules[i] = available_rules[j].metadata_name

\* what _discover_rules does: the registry is indexed by directory name,
\* and holds one entry for each rule directory that loads
C23_IndexedByDirectoryName ==
    /\ \A i \in DOMAIN available_rules :
           rule_keys(available_rules)[i] = available_rules[i].name
    /\ \A i, j \in DOMAIN available_rules :
           available_rules[i].name = available_rules[j].name => i = j

-----------------------------------------------------------------------------
(* Waiver statistics *)

\* the statistics are those of the waiver list as it is now
StatisticsCurrent ==
    /\ statistics.total_waivers = Len(waivers)
    /\ statistics.expired_waivers =
           Cardinality({i \in DOMAIN waivers : ExpiresInPast(waivers[i], today)})
    /\ statistics.unused_waivers =
           Cardinality({i \in DOMAIN waivers : waivers[i].usage_count = 0})
    /\ statistics.used_waivers =
           Some(Cardinality({i \in DOMAIN waivers : waivers[i].usage_count > 0}))
    /\ statistics.used_waivers[1] + statistics.unused_waivers
           = statistics.total_waivers

\* C24: whatever apply_waivers and create_waiver_from_violation calls came
\* before, what get_waiver_statistics reports is recomputed from the waiver
\* list of the moment: total, expired, unused and used waivers are the
\* counts over the list, and used + unused = total
C24_StatisticsRecomputed ==
    [][statistics' # statistics => StatisticsCurrent']_vars

\* statistics asked for after a waiver was used, a waiver was made from a
\* violation, and a waiver expired
C24_Witness ==
    /\ statistics.used_waivers # None
    /\ statistics.used_waivers[1] > 0
    /\ statistics.expired_waivers > 0
    /\ statistics.total_waivers > Len(load_all_rule_waivers(rules_dir))
    /\ StatisticsCurrent

\* total, expired and unused in the statistics are those of the waiver
\* list as it is now
CountsCurrent ==
    /\ statistics.total_waivers = Len(waivers)
    /\ statistics.expired_waivers =
           Cardinality({i \in DOMAIN waivers : ExpiresInPast(waivers[i], today)})
    /\ statistics.unused_waivers =
           Cardinality({i \in DOMAIN waivers : waivers[i].usage_count = 0})

\* C25: the 'active' statistic counts exactly the waivers that are active
\* in the sense used for matching: their active flag is set and they are
\* not expired; a waiver with active = false is never counted
C25_ActiveCountsInForce ==
    CountsCurrent =>
        statistics.active_waivers =
            Cardinality({i \in DOMAIN waivers : InForce(waivers[i], today)})

\* what _update_statistics computes: the waivers that are not expired,
\* whatever their active flag
C25_ActiveCountsUnexpired ==
    CountsCurrent =>
        statistics.active_waivers =
            Cardinality({i \in DOMAIN waivers : ~ExpiresInPast(waivers[i], today)})

-----------------------------------------------------------------------------
(* File waivers *)

\* waivers[i], as it was before the last call, came from the k-th entry
\* under file_waivers of the policy file of rules_dir[j]
FromFileWaiver(i, j, k) ==
    /\ HasPolicy(rules_dir[j])
    /\ << "file_waivers", k >> \in GoodEntries(rules_dir[j])
    /\ LoadedAs(call.before[i], rules_dir[j], << "file_waivers", k >>, i - 1)

\* C26: a file waiver applies to all violations of its rule in the files
\* that match its pattern: apply_waivers waives every violation of that rule
\* whose file path matches, while the waiver is active and unexpired
C26_FileWaiverApplies ==
    call.made =>
        \A i \in DOMAIN call.before, j \in DOMAIN rules_dir, k \in 1..4 :
            (/\ FromFileWaiver(i, j, k)
             /\ InForce(call.before[i], call.day)
             /\ fnmatch(call.file_path,
                        OrElse(rules_dir[j].waiver_file[1].file_waivers[k].pattern,
                               rules_dir[j].waiver_file[1].file_waivers[k].file_pattern)[1]))
            => \A v \in Elems(call.violations) :
                   v.rule_name = rules_dir[j].name => v \in Elems(call.waived)

\* what the code does: a waiver that came from a file_waivers entry is
\* never used
C26_FileWaiverNeverUsed ==
    call.made =>
        \A i \in DOMAIN call.before, j \in DOMAIN rules_dir, k \in 1..4 :
            FromFileWaiver(i, j, k) => waivers[i].usage_count = 0

-----------------------------------------------------------------------------
(* The rules a waiver is scoped to *)

\* the waivers the manager loaded; those behind them were made by
\* create_waiver_from_violation
NLoaded == Len(load_all_rule_waivers(rules_dir))

\* the rules an entry names in its rule or rules field
Named(item) ==
    Elems(Get(item, "rules", << >>))
        \cup (IF item.rule # None THEN {item.rule[1]} ELSE {})

\* waivers[i] came from entry e of the policy file of rules_dir[j], and
\* is scoped to that rule and, besides, to none but the rules the entry
\* names
ScopedToItsFile(i, j, e) ==
    /\ LoadedAs(waivers[i], rules_dir[j], e, i - 1)
    /\ waivers[i].rule_names # << >>
    /\ rules_dir[j].name \in Elems(waivers[i].rule_names)
    /\ Elems(waivers[i].rule_names) \subseteq
           {rules_dir[j].name}
               \cup Named(rules_dir[j].waiver_file[1][e[1]][e[2]])

\* C27: every waiver loaded from rule X's policy file has a non-empty
\* rule_names list that contains X and otherwise only rules named by its
\* entry, every waiver made by create_waiver_from_violation is scoped to
\* the one rule of its violation, and a violation is waived only by a
\* waiver whose rule_names hold the violation's rule_name
C27_ScopedToRule ==
    /\ \A i \in DOMAIN waivers :
           IF i <= NLoaded
           THEN \E j \in DOMAIN rules_dir :
                    \E e \in GoodEntries(rules_dir[j]) : ScopedToItsFile(i, j, e)
           ELSE /\ Len(waivers[i].rule_names) = 1
                /\ waivers[i].id =
                       "auto_" \o waivers[i].rule_names[1] \o "_" \o ToString(i - 1)
    /\ call.made =>
           \A v \in Elems(call.waived) :
               \E i \in DOMAIN call.before :
                   /\ waivers[i].usage_count > call.before[i].usage_count
                   /\ v.rule_name \in Elems(waivers[i].rule_names)

\* a waiver of naming's policy file that names the rule imports has
\* waived a violation of imports, and a waiver was made from a violation
C27_Witness ==
    /\ call.made
    /\ \E v \in Elems(call.waived) : v.rule_name = "imports"
    /\ \E i \in 1..NLoaded :
           /\ waivers[i].usage_count > 0
           /\ waivers[i].rule_names = << "imports", "naming" >>
    /\ Len(waivers) > NLoaded

-----------------------------------------------------------------------------
(* Rule waivers come first *)

\* waivers[i] came from an entry of `section` in the policy file of
\* rules_dir[j]
FromSection(i, j, section) ==
    \E e \in GoodEntries(rules_dir[j]) :
        e[1] = section /\ LoadedAs(waivers[i], rules_dir[j], e, i - 1)

OtherSections == LoadedSections \ {"rule_waivers"}

\* at the last call a rule waiver of the policy file of rules_dir[j] was
\* active, unexpired and without file pattern
RuleWaiverInForce(j) ==
    \E i \in DOMAIN call.before :
        /\ FromSection(i, j, "rule_waivers")
        /\ InForce(call.before[i], call.day)
        /\ ~Declared(call.before[i].file_pattern)

\* C28: the rule waivers of a policy file stand in the list before its
\* file, line and pattern waivers; so a call made while rule X has an active,
\* unexpired rule waiver without file pattern waives every violation of X,
\* and the file, line and pattern waivers of X's policy file are used at
\* most for violations of other rules
C28_RuleWaiverShadows ==
    \A j \in DOMAIN rules_dir :
        /\ \A i1, i2 \in DOMAIN waivers :
               (/\ FromSection(i1, j, "rule_waivers")
                /\ \E section \in OtherSections : FromSection(i2, j, section))
               => i1 < i2
        /\ (call.made /\ RuleWaiverInForce(j)) =>
               /\ \A v \in Elems(call.violations) :
                      v.rule_name = rules_dir[j].name => v \in Elems(call.waived)
               /\ \A i \in DOMAIN call.before :
                      (\E section \in OtherSections : FromSection(i, j, section))
                      => waivers[i].usage_count - call.before[i].usage_count
                           <= Cardinality({k \in DOMAIN call.violations :
                                  call.violations[k].rule_name # rules_dir[j].name})

\* a violation the line waiver of its rule's policy file matches was
\* waived by the rule waiver of that file, and the line waiver is unused
C28_Witness ==
    /\ call.made
    /\ \E j \in DOMAIN rules_dir :
           /\ RuleWaiverInForce(j)
           /\ \E v \in Elems(call.waived) : v.rule_name = rules_dir[j].name
           /\ \E i1, i2 \in DOMAIN waivers :
                  /\ FromSection(i1, j, "rule_waivers")
                  /\ waivers[i1].usage_count > 0
                  /\ FromSection(i2, j, "line_waivers")
                  /\ waivers[i2].usage_count = 0
                  /\ \E v \in Elems(call.waived) :
                         matches_violation(call.before[i2], v, call.file_path,
                                           call.day)

-----------------------------------------------------------------------------
(* apply_waivers as a function of the waiver list *)

\* the orderings of a list
Orderings(l) ==
    { [k \in DOMAIN l |-> l[p[k]]] :
        p \in { q \in [DOMAIN l -> DOMAIN l] :
                   \A a, b \in DOMAIN l : q[a] = q[b] => a = b } }

\* C29: the partition apply_waivers returns does not depend on the order
\* of the waiver list: under every ordering of the same waivers, the same
\* violations and file_path give the same waived and the same remaining
\* violations
C29_OrderIndependent ==
    call.made =>
        \A ws \in Orderings(call.before) :
            /\ apply_waivers(ws, call.violations, call.file_path, call.day, now).remaining
                   = call.remaining
            /\ apply_waivers(ws, call.violations, call.file_path, call.day, now).waived
                   = call.waived

\* a call with two different waivers that both match a waived violation,
\* so that the order decides which of them is used, and with a violation
\* that remains
C29_Witness ==
    /\ call.made
    /\ Len(call.before) >= 2
    /\ call.before[1] # call.before[2]
    /\ call.remaining # << >>
    /\ \E v \in Elems(call.waived) :
           /\ matches_violation(call.before[1], v, call.file_path, call.day)
           /\ matches_violation(call.before[2], v, call.file_path, call.day)

\* C30: re-applying is idempotent: with the waiver list and the date as
\* the call left them, apply_waivers on the remaining violations and the
\* same file_path returns them all as remaining, none as waived, and
\* changes no usage_count or last_used
C30_Idempotent ==
    call.made =>
        /\ apply_waivers(waivers, call.remaining, call.file_path, call.day, now + 1).remaining
               = call.remaining
        /\ apply_waivers(waivers, call.remaining, call.file_path, call.day, now + 1).waived
               = << >>
        /\ apply_waivers(waivers, call.remaining, call.file_path, call.day, now + 1).waivers
               = waivers

\* a call that waived one violation and left another to re-apply
C30_Witness ==
    /\ call.made
    /\ call.waived # << >>
    /\ call.remaining # << >>
    /\ \E i \in DOMAIN waivers : waivers[i].last_used = Some(now)

====
